---- MODULE Spec2Model ----
(***************************************************************************)
(* Model of the Cleo Discord bot's conversation-context store, rate        *)
(* limiter and completion client.                                          *)
(*                                                                         *)
(* Two generations of the client coexist in the repository: the legacy     *)
(* one (src/api_client.py) and the current one (src/src/api_client.py).    *)
(* The variable `version` fixes which of the two a behaviour runs.         *)
(*                                                                         *)
(* Time is the wall clock in whole seconds.  A relevance score r is        *)
(* represented by the integer r * RelevanceScale, so that 0.1 and          *)
(* 1 - age/DecaySeconds are exact for every age in whole seconds.          *)
(***************************************************************************)
EXTENDS Integers, Sequences, FiniteSets, TLC

VARIABLES
    version,             \* "legacy" or "current": which client is running
    clock,               \* datetime.now(), in seconds
    conversation_cache,  \* channel_id -> ConversationManager (a dict)
    files,               \* channel_id -> the file context_<channel_id>.json
    last,                \* the most recent call: its name, arguments, return value
    appends,             \* how many messages callers have appended so far
    requests,            \* RateLimiter.requests: the recorded request instants
    rl_lock,             \* RateLimiter._lock: its holder (or None) and its FIFO of waiters
    rl_pc,               \* where each caller of acquire() is
    rl_local,            \* each caller's local `now` and the instant its sleep ends
    calls,               \* the acquire() calls that have returned, in order
    fetch,               \* one call of fetch_completion_with_hermes: where it is, its
                         \* attempts so far, its sleeps, what it returned
    chunking,            \* one call of chunk_and_send_messages: its text and what it
                         \* passed to channel.send
    notes_manager,       \* UserNotesManager: the users' note files and its _cache
    handler,             \* one call of on_message: where it is, what went wrong, what
                         \* the channel was sent
    db,                  \* DatabaseManager: the rows of its messages table
    thought_chain_manager, \* ThoughtChainManager: _last_chain_time and the calls of
                         \* maybe_start_chain that returned True
    managing,            \* concurrent calls of manage_context: cache_lock, where each
                         \* task is, what was created and passed so far
    retry,               \* one call of retry_with_exponential_backoff
    post_processing      \* one call of process_and_send_response: its text, the
                         \* images asked for, what the chunker was given

ctxVars == <<conversation_cache, files, last, appends>>

rlVars == <<requests, rl_lock, rl_pc, rl_local, calls>>

auxVars == <<managing, retry, post_processing>>

extVars == <<chunking, notes_manager, handler, db, thought_chain_manager, managing, retry,
             post_processing>>

----------------------------------------------------------------------------
(* Bounds of the model *)

\* MAX_CONTEXT_SIZE is 10 in config.py; the model runs the same code with a
\* smaller capacity.
MAX_CONTEXT_SIZE == 3

\* Total number of messages appended by callers in one behaviour.
MaxAppends == 3

\* RateLimiter(requests_per_minute = 60) is run with a smaller capacity.
requests_per_minute == 2

\* The rate limiter's clock stops here.
MaxLimiterClock == 100

\* Total number of acquire() calls in one behaviour.
MaxCalls == 5

\* chunk_and_send_messages fills a chunk up to 1900 characters and Discord
\* accepts up to 2000; the model runs the same code with these limits.
ChunkLimit == 6

DiscordLimit == 8

\* The longest text of which every spelling is tried.
MaxTextLen == 5

\* Total number of calls of the UserNotesManager in one behaviour.
MaxNoteOps == 4

\* Messages handled by on_message in one behaviour.
MaxMessages == 2

\* Calls of DatabaseManager.add_message in one behaviour.
MaxDbOps == 3

\* Calls of maybe_start_chain in one behaviour.
MaxChainCalls == 4

\* The update_chain calls of one run.
MaxUpdates == 4

\* if chain.chain_count >= 4: del self._active_chains[channel_id]
MaxChainCount == 4

\* Seconds between two readings of datetime.now(), and the last reading.
ChainStep == 30

MaxChainClock == 120

\* Image tags in one completion text.
MaxTags == 1

(* Program constants *)

\* The length of the rate limiter's window, in seconds.
WindowSeconds == 60

\* The number of attempts at the completion request, in either client.
max_retries == 3

\* if emoji_count > 2
EmojiLimit == 2

CONTEXT_DECAY_HOURS == 1

DecaySeconds == CONTEXT_DECAY_HOURS * 3600

RelevanceScale == 10 * DecaySeconds

None == "None"

Versions == {"legacy", "current"}

Channels == {"c1"}

\* The instants (seconds since the process started) at which calls are made:
\* they give the ages 400, 1800, 2200, 3600 (the decay window) and 4000.
Instants == {0, 400, 2200, 4000}

Max(a, b) == IF a >= b THEN a ELSE b

\* dict.get(key, default)
dict_get(d, key, default) == IF key \in DOMAIN d THEN d[key] ELSE default

\* s[-n:] of a list
LastN(s, n) == IF Len(s) <= n THEN s ELSE SubSeq(s, Len(s) - n + 1, Len(s))

EmptyDict == [k \in {} |-> None]

dict_set(d, key, value) == [k \in DOMAIN d \cup {key} |-> IF k = key THEN value ELSE d[k]]

----------------------------------------------------------------------------
(* ConversationManager *)

\* The words extract_interests looks for; a message content of the model is
\* a single word.
Keywords == {"ai", "music", "science", "art", "technology", "sports", "movies", "gaming"}

extract_interests(message_content) == {message_content} \cap Keywords

update_user_profile(user_profiles, user_id, message_content) ==
    LET old == IF user_id \in DOMAIN user_profiles THEN user_profiles[user_id] ELSE {}
    IN  dict_set(user_profiles, user_id, old \cup extract_interests(message_content))

\* A list instead of a bounded deque.
deque_append_unbounded(dq, x) == Append(dq, x)

\* A full deque that refuses the new element instead of dropping the oldest.
deque_append_drop_newest(dq, x) ==
    IF Len(dq) >= MAX_CONTEXT_SIZE THEN dq ELSE Append(dq, x)

\* collections.deque(maxlen = MAX_CONTEXT_SIZE).append
deque_append(dq, x) ==
    IF Len(dq) >= MAX_CONTEXT_SIZE THEN Append(Tail(dq), x) ELSE Append(dq, x)

ConversationManager(t) ==
    IF version = "legacy"
    THEN [context |-> <<>>, last_save |-> t]
    ELSE [context |-> <<>>, last_save |-> t, cache |-> EmptyDict, user_profiles |-> EmptyDict]

legacy_add_message(mgr, message, t) ==
    [mgr EXCEPT !.context = deque_append(@, [content |-> message.content, timestamp |-> t])]

current_add_message(mgr, message, t) ==
    LET stored == [content   |-> message.content,
                   role      |-> dict_get(message, "role", "user"),
                   timestamp |-> t,
                   user_id   |-> dict_get(message, "user_id", None)]
        user_id == dict_get(message, "user_id", None)
    IN  [mgr EXCEPT !.context = deque_append(@, stored),
                    !.cache = EmptyDict,
                    !.last_save = t,
                    !.user_profiles =
                        IF dict_get(message, "role", None) = "user" /\ user_id # None
                        THEN update_user_profile(@, user_id, message.content)
                        ELSE @]

add_message(mgr, message, t) ==
    IF version = "legacy" THEN legacy_add_message(mgr, message, t)
    ELSE current_add_message(mgr, message, t)

\* The relevance without its floor of 0.1.
relevance_unfloored(age) == RelevanceScale - (age * RelevanceScale) \div DecaySeconds

\* 1.0 - age / (CONTEXT_DECAY_HOURS * 3600), then max(0.1, relevance)
relevance_of(age) == Max(RelevanceScale \div 10, RelevanceScale - (age * RelevanceScale) \div DecaySeconds)

\* A window that ends one instant early.
outside_window_inclusive(msg, current_time) == msg.timestamp <= current_time - DecaySeconds

\* if msg["timestamp"] < cutoff_time: continue
outside_window(msg, current_time) == msg.timestamp < current_time - DecaySeconds

\* The loop of get_relevant_context over self.context.
RECURSIVE relevant_messages(_, _)
relevant_messages(context, current_time) ==
    IF context = <<>> THEN <<>>
    ELSE LET msg == Head(context)
             rest == relevant_messages(Tail(context), current_time)
             age == current_time - msg.timestamp
         IN  IF outside_window(msg, current_time) THEN rest
             ELSE IF version = "legacy"
                  THEN <<[content |-> msg.content, relevance |-> relevance_of(age)]>> \o rest
                  ELSE <<[content |-> msg.content, role |-> msg.role,
                          relevance |-> relevance_of(age)]>> \o rest

\* The messages that are inside the window, as stored.
RECURSIVE inside_window(_, _)
inside_window(context, current_time) ==
    IF context = <<>> THEN <<>>
    ELSE IF outside_window(Head(context), current_time)
         THEN inside_window(Tail(context), current_time)
         ELSE <<Head(context)>> \o inside_window(Tail(context), current_time)

\* A get_relevant_context that also purges what it skips.
get_relevant_context_purging(mgr, cache_key, t) ==
    [value |-> relevant_messages(mgr.context, t),
     manager |-> [mgr EXCEPT !.context = inside_window(@, t)]]

\* The value returned and the manager afterwards (its _cache may have grown).
get_relevant_context(mgr, cache_key, t) ==
    IF version = "legacy"
    THEN [value |-> relevant_messages(mgr.context, t), manager |-> mgr]
    ELSE IF cache_key # None /\ cache_key \in DOMAIN mgr.cache
         THEN [value |-> mgr.cache[cache_key], manager |-> mgr]
         ELSE LET value == relevant_messages(mgr.context, t)
              IN  [value |-> value,
                   manager |-> IF cache_key # None
                               THEN [mgr EXCEPT !.cache = dict_set(@, cache_key, value)]
                               ELSE mgr]

----------------------------------------------------------------------------
(* The per-channel context file and manage_context *)

NoMessage == EmptyDict

NoFile == [exists |-> FALSE, valid |-> FALSE, data |-> <<>>]

\* A file that is not JSON, or cannot be read.
CorruptFile == [exists |-> TRUE, valid |-> FALSE, data |-> <<>>]

\* What save_context_periodically writes for one stored message.
serialise(msg) ==
    IF version = "legacy"
    THEN [content |-> msg.content, timestamp |-> msg.timestamp]
    ELSE [content |-> msg.content, role |-> msg.role,
          timestamp |-> msg.timestamp, user_id |-> dict_get(msg, "user_id", None)]

\* The dict manage_context builds from one entry of the file.
message_of_entry(entry) ==
    IF version = "legacy"
    THEN [content |-> entry.content, timestamp |-> entry.timestamp]
    ELSE [content |-> entry.content, role |-> dict_get(entry, "role", "user"),
          timestamp |-> entry.timestamp, user_id |-> dict_get(entry, "user_id", None)]

\* msg["content"] or msg["timestamp"] raises KeyError
entry_raises(entry) == "content" \notin DOMAIN entry \/ "timestamp" \notin DOMAIN entry

\* for msg in data[-MAX_CONTEXT_SIZE:]: add_message(...), left by the first exception
RECURSIVE load_entries(_, _, _)
load_entries(mgr, entries, t) ==
    IF entries = <<>> THEN mgr
    ELSE IF entry_raises(Head(entries)) THEN mgr
    ELSE load_entries(add_message(mgr, message_of_entry(Head(entries)), t), Tail(entries), t)

load_context_file(mgr, file, t) ==
    IF ~file.exists \/ ~file.valid THEN mgr
    ELSE load_entries(mgr, LastN(file.data, MAX_CONTEXT_SIZE), t)

\* An ensure_manager that builds a ConversationManager on every call.
ensure_manager_always_creating(cache, channel_id, t) ==
    [cache |-> dict_set(cache, channel_id,
                        load_context_file(ConversationManager(t), files[channel_id], t)),
     created |-> TRUE]

\* `if channel_id not in conversation_cache:` and its body: the cache
\* afterwards and whether a ConversationManager was constructed.
ensure_manager(cache, channel_id, t) ==
    IF channel_id \in DOMAIN cache THEN [cache |-> cache, created |-> FALSE]
    ELSE [cache |-> dict_set(cache, channel_id,
                             load_context_file(ConversationManager(t), files[channel_id], t)),
          created |-> TRUE]

\* manage_context up to its return: the cache afterwards and the value returned
manage_context(cache, channel_id, new_message, t) ==
    LET loaded == ensure_manager(cache, channel_id, t).cache
        added == IF new_message # NoMessage
                 THEN dict_set(loaded, channel_id, add_message(loaded[channel_id], new_message, t))
                 ELSE loaded
        got == get_relevant_context(added[channel_id], None, t)
    IN  [cache |-> dict_set(added, channel_id, got.manager), value |-> got.value,
         before |-> loaded[channel_id].context]

\* A cycle that writes only the newest message of each channel.
save_context_newest_only(cache, failing) ==
    [c \in Channels |->
        IF c \in DOMAIN cache /\ c \notin failing
        THEN [exists |-> TRUE, valid |-> TRUE,
              data |-> [i \in 1..Len(LastN(cache[c].context, 1)) |->
                           serialise(LastN(cache[c].context, 1)[i])]]
        ELSE files[c]]

\* One cycle of save_context_periodically; the files of `failing` cannot be opened.
save_context(cache, failing) ==
    [c \in Channels |->
        IF c \in DOMAIN cache /\ c \notin failing
        THEN [exists |-> TRUE, valid |-> TRUE,
              data |-> [i \in 1..Len(cache[c].context) |-> serialise(cache[c].context[i])]]
        ELSE files[c]]

----------------------------------------------------------------------------
(* Inputs *)

NewMessages ==
    { [role |-> "user", content |-> "ai", user_id |-> "u1"],
      [role |-> "assistant", content |-> "hi", user_id |-> None] }

\* A timestamp written by an earlier run of the process.
EarlierRun == 0 - 600

OldEntry(i) ==
    LET content == IF i % 2 = 1 THEN "ai" ELSE "hi"
    IN  IF version = "legacy"
        THEN [content |-> content, timestamp |-> EarlierRun]
        ELSE IF i % 2 = 1
             THEN [content |-> content, role |-> "user", timestamp |-> EarlierRun,
                   user_id |-> "u1"]
             ELSE [content |-> content, role |-> "assistant", timestamp |-> EarlierRun,
                   user_id |-> None]

\* Written by a run whose MAX_CONTEXT_SIZE was larger (config.py: "Reduced from 50").
LongFile ==
    [exists |-> TRUE, valid |-> TRUE, data |-> [i \in 1..(MAX_CONTEXT_SIZE + 1) |-> OldEntry(i)]]

\* The second entry lacks its timestamp.
DamagedFile ==
    [exists |-> TRUE, valid |-> TRUE, data |-> <<OldEntry(1), [content |-> "hi"], OldEntry(3)>>]

InitFiles == {NoFile, CorruptFile, LongFile, DamagedFile}

----------------------------------------------------------------------------
(* The record of the most recent call *)

\* `before` is self.context as the call's add_message (without a message: its
\* get_relevant_context) found it; `failing` the files a save could not open.
Call(op, channel, message, before, value, failing) ==
    [op |-> op, channel |-> channel, message |-> message, before |-> before,
     value |-> value, failing |-> failing]

----------------------------------------------------------------------------
(* RateLimiter *)

Callers == {"t1", "t2", "t3"}

\* Time passes in steps of ten seconds.
LimiterSteps == {10}

\* [req for req in self.requests if (now - req).total_seconds() < 60]
RECURSIVE in_window(_, _)
in_window(reqs, now) ==
    IF reqs = <<>> THEN <<>>
    ELSE IF now - Head(reqs) < WindowSeconds
         THEN <<Head(reqs)>> \o in_window(Tail(reqs), now)
         ELSE in_window(Tail(reqs), now)

\* A limiter that lets one request too many through.
at_capacity_off_by_one(reqs) == Len(reqs) > requests_per_minute

\* if len(self.requests) >= self.requests_per_minute
at_capacity(reqs) == Len(reqs) >= requests_per_minute

\* sleep_time = 60 - (now - self.requests[0]).total_seconds()
sleep_time(reqs, now) == WindowSeconds - (now - reqs[1])

\* One acquire() that has returned: `now` is its local of that name, `pending`
\* the length of self.requests after its filter, `recorded` what it appended,
\* `returned` the clock when it returned.
Returned(now, pending, slept, recorded, returned) ==
    [now |-> now, pending |-> pending, slept |-> slept, recorded |-> recorded,
     returned |-> returned]

\* The body of acquire() from taking the lock to its sleep or its return.
EnterLimiter(t, waiters) ==
    LET now == clock
        kept == in_window(requests, now)
    IN  IF at_capacity(kept)
        THEN /\ requests' = kept
             /\ rl_lock' = [holder |-> t, waiters |-> waiters]
             /\ rl_pc' = [rl_pc EXCEPT ![t] = "sleeping"]
             /\ rl_local' = [rl_local EXCEPT ![t] =
                                [now |-> now, wake |-> now + sleep_time(kept, now),
                                 pending |-> Len(kept)]]
             /\ UNCHANGED calls
        ELSE /\ requests' = Append(kept, now)
             /\ rl_lock' = [holder |-> None, waiters |-> waiters]
             /\ rl_pc' = [rl_pc EXCEPT ![t] = "idle"]
             /\ calls' = Append(calls, Returned(now, Len(kept), FALSE, now, clock))
             /\ UNCHANGED rl_local

\* A caller awaits acquire(): it takes the lock, or queues behind its holder.
Acquire(t) ==
    /\ rl_pc[t] = "idle"
    /\ Len(calls) + Cardinality({u \in Callers : rl_pc[u] # "idle"}) < MaxCalls
    /\ IF rl_lock.holder = None /\ rl_lock.waiters = <<>>
       THEN EnterLimiter(t, rl_lock.waiters)
       ELSE /\ rl_lock' = [rl_lock EXCEPT !.waiters = Append(@, t)]
            /\ rl_pc' = [rl_pc EXCEPT ![t] = "waiting"]
            /\ UNCHANGED <<requests, rl_local, calls>>
    /\ UNCHANGED <<version, clock>>
    /\ UNCHANGED ctxVars
    /\ UNCHANGED fetch
    /\ UNCHANGED extVars

\* The released lock goes to the caller that has waited longest.
Resume(t) ==
    /\ rl_pc[t] = "waiting"
    /\ rl_lock.holder = None
    /\ rl_lock.waiters # <<>>
    /\ Head(rl_lock.waiters) = t
    /\ EnterLimiter(t, Tail(rl_lock.waiters))
    /\ UNCHANGED <<version, clock>>
    /\ UNCHANGED ctxVars
    /\ UNCHANGED fetch
    /\ UNCHANGED extVars

\* A sleeper that returns without leaving the `async with` block.
WakeKeepingLock(t) ==
    /\ rl_pc[t] = "sleeping"
    /\ clock >= rl_local[t].wake
    /\ requests' = Append(requests, rl_local[t].now)
    /\ rl_lock' = rl_lock
    /\ rl_pc' = [rl_pc EXCEPT ![t] = "idle"]
    /\ calls' = Append(calls, Returned(rl_local[t].now, rl_local[t].pending, TRUE,
                                       rl_local[t].now, clock))
    /\ UNCHANGED <<version, clock, rl_local>>
    /\ UNCHANGED ctxVars
    /\ UNCHANGED fetch
    /\ UNCHANGED extVars

\* asyncio.sleep(sleep_time) is over: self.requests.append(now), release, return.
Wake(t) ==
    /\ rl_pc[t] = "sleeping"
    /\ clock >= rl_local[t].wake
    /\ requests' = Append(requests, rl_local[t].now)
    /\ rl_lock' = [rl_lock EXCEPT !.holder = None]
    /\ rl_pc' = [rl_pc EXCEPT ![t] = "idle"]
    /\ calls' = Append(calls, Returned(rl_local[t].now, rl_local[t].pending, TRUE,
                                       rl_local[t].now, clock))
    /\ UNCHANGED <<version, clock, rl_local>>
    /\ UNCHANGED ctxVars
    /\ UNCHANGED fetch
    /\ UNCHANGED extVars

\* Time passes; a timer that is due fires before more time passes.
LimiterTick(d) ==
    /\ clock + d <= MaxLimiterClock
    /\ \A t \in Callers : rl_pc[t] = "sleeping" => clock + d <= rl_local[t].wake
    /\ clock' = clock + d
    /\ UNCHANGED version
    /\ UNCHANGED ctxVars
    /\ UNCHANGED fetch
    /\ UNCHANGED rlVars
    /\ UNCHANGED extVars

\* Time passes, also beyond the last instant at which a call is made, while
\* a sleeper waits for its timer.
LimiterLiveTick(d) ==
    /\ \/ clock + d <= MaxLimiterClock
       \/ \E t \in Callers : rl_pc[t] = "sleeping" /\ clock < rl_local[t].wake
    /\ \A t \in Callers : rl_pc[t] = "sleeping" => clock + d <= rl_local[t].wake
    /\ clock' = clock + d
    /\ UNCHANGED version
    /\ UNCHANGED ctxVars
    /\ UNCHANGED fetch
    /\ UNCHANGED rlVars
    /\ UNCHANGED extVars

InitLimiter ==
    /\ requests = <<>>
    /\ rl_lock = [holder |-> None, waiters |-> <<>>]
    /\ rl_pc = [t \in Callers |-> "idle"]
    /\ rl_local = [t \in Callers |-> [now |-> 0, wake |-> 0, pending |-> 0]]
    /\ calls = <<>>

----------------------------------------------------------------------------
(* Text: a string is the sequence of its characters *)

Lower == {"h"}

Upper == {"I"}

Punctuation == {".", ",", "!", "?"}

Whitespace == {" ", "\n", "\t"}

IsLetter(c) == c \in Lower \cup Upper

\* str.strip(): leading whitespace, then trailing whitespace
RECURSIVE lstrip(_)
lstrip(s) == IF s # <<>> /\ Head(s) \in Whitespace THEN lstrip(Tail(s)) ELSE s

RECURSIVE rstrip(_)
rstrip(s) ==
    IF s # <<>> /\ s[Len(s)] \in Whitespace THEN rstrip(SubSeq(s, 1, Len(s) - 1)) ELSE s

strip(s) == rstrip(lstrip(s))

\* re.sub(r'(?<=[a-zA-Z])(?=[A-Z])', ' ', text)
RECURSIVE space_before_capitals(_)
space_before_capitals(s) ==
    IF Len(s) <= 1 THEN s
    ELSE IF IsLetter(s[1]) /\ s[2] \in Upper
         THEN <<s[1], " ">> \o space_before_capitals(Tail(s))
         ELSE <<s[1]>> \o space_before_capitals(Tail(s))

\* re.sub(r'([.,!?])([^\s])', r'\1 \2', text)
RECURSIVE space_after_punctuation(_)
space_after_punctuation(s) ==
    IF Len(s) <= 1 THEN s
    ELSE IF s[1] \in Punctuation /\ s[2] \notin Whitespace
         THEN <<s[1], " ", s[2]>> \o space_after_punctuation(SubSeq(s, 3, Len(s)))
         ELSE <<s[1]>> \o space_after_punctuation(Tail(s))

\* re.sub(r'(\w)([.,!?])(\w)', r'\1\2 \3', text)
RECURSIVE space_inside_words(_)
space_inside_words(s) ==
    IF Len(s) <= 2 THEN s
    ELSE IF IsLetter(s[1]) /\ s[2] \in Punctuation /\ IsLetter(s[3])
         THEN <<s[1], s[2], " ", s[3]>> \o space_inside_words(SubSeq(s, 4, Len(s)))
         ELSE <<s[1]>> \o space_inside_words(Tail(s))

\* re.sub(r'\s{2,}', ' ', text)
RECURSIVE collapse_whitespace(_)
collapse_whitespace(s) ==
    IF s = <<>> THEN <<>>
    ELSE IF Len(s) >= 2 /\ s[1] \in Whitespace /\ s[2] \in Whitespace
         THEN <<" ">> \o collapse_whitespace(lstrip(s))
         ELSE <<s[1]>> \o collapse_whitespace(Tail(s))

fix_spacing(text) ==
    strip(collapse_whitespace(space_inside_words(space_after_punctuation(
        space_before_capitals(text)))))

\* ' '.join(text.split())
RECURSIVE join_split(_)
join_split(s) ==
    LET t == lstrip(s)
    IN  IF t = <<>> THEN <<>>
        ELSE IF Len(t) >= 2 /\ t[2] \in Whitespace
             THEN IF lstrip(Tail(t)) = <<>> THEN <<t[1]>>
                  ELSE <<t[1], " ">> \o join_split(Tail(t))
             ELSE <<t[1]>> \o join_split(Tail(t))

count_spaces(s) == Cardinality({i \in 1..Len(s) : s[i] = " "})

\* The text fetch_completion_with_hermes returns for the content of a 200 response.
current_clean(content) ==
    LET stripped == strip(content)
        fixed == fix_spacing(stripped)
    IN  IF Len(stripped) > 0
        THEN IF Len(fixed) > 0 /\ 10 * count_spaces(fixed) < Len(fixed)
             THEN join_split(fixed)
             ELSE fixed
        ELSE stripped

----------------------------------------------------------------------------
(* chunk_and_send_messages *)

\* [.!?]
SentenceEnd == {".", "!", "?"}

\* The characters texts are made of.
Alphabet == {"h", "I", ".", " ", "\n"}

\* The length of the longest run of characters of `set` that starts at s[i].
RECURSIVE run(_, _, _)
run(s, i, set) == IF i <= Len(s) /\ s[i] \in set THEN 1 + run(s, i + 1, set) ELSE 0

\* \n\n+ at s[i]: the index after the match, 0 without one
paragraph_break(s, i) ==
    IF run(s, i, {"\n"}) >= 2 THEN i + run(s, i, {"\n"}) ELSE 0

\* (?<=[.!?])\s+(?=[A-Z]) at s[i]
sentence_boundary(s, i) ==
    LET w == run(s, i, Whitespace)
    IN  IF i > 1 /\ s[i - 1] \in SentenceEnd /\ w >= 1 /\ i + w <= Len(s) /\ s[i + w] \in Upper
        THEN i + w ELSE 0

\* (?<=\w)\s*[.!?]+\s+ at s[i]
punctuation_with_space(s, i) ==
    LET w == run(s, i, Whitespace)
        q == run(s, i + w, SentenceEnd)
        v == run(s, i + w + q, Whitespace)
    IN  IF i > 1 /\ IsLetter(s[i - 1]) /\ q >= 1 /\ v >= 1 THEN i + w + q + v ELSE 0

\* \s*[.!?]+\s*$ at s[i]
end_of_text(s, i) ==
    LET w == run(s, i, Whitespace)
        q == run(s, i + w, SentenceEnd)
        v == run(s, i + w + q, Whitespace)
    IN  IF q >= 1 /\ i + w + q + v = Len(s) + 1 THEN i + w + q + v ELSE 0

\* The alternatives of split_pattern in their order: the first that matches at s[i] wins.
match_end(s, i) ==
    IF paragraph_break(s, i) # 0 THEN paragraph_break(s, i)
    ELSE IF sentence_boundary(s, i) # 0 THEN sentence_boundary(s, i)
    ELSE IF punctuation_with_space(s, i) # 0 THEN punctuation_with_space(s, i)
    ELSE end_of_text(s, i)

\* re.split(split_pattern, content) from s[start] on, the search being at s[i]:
\* the text before each match, the match (the pattern is one group), the rest.
RECURSIVE re_split_from(_, _, _)
re_split_from(s, start, i) ==
    IF i > Len(s) THEN <<SubSeq(s, start, Len(s))>>
    ELSE IF match_end(s, i) # 0
         THEN <<SubSeq(s, start, i - 1), SubSeq(s, i, match_end(s, i) - 1)>>
                  \o re_split_from(s, match_end(s, i), match_end(s, i))
         ELSE re_split_from(s, start, i + 1)

re_split(s) == re_split_from(s, 1, 1)

\* The loop over raw_chunks and the append after it.
RECURSIVE combine_chunks(_, _)
combine_chunks(raw_chunks, current_chunk) ==
    IF raw_chunks = <<>>
    THEN IF current_chunk # <<>> THEN <<strip(current_chunk)>> ELSE <<>>
    ELSE LET chunk == Head(raw_chunks)
         IN  IF strip(chunk) = <<>> THEN combine_chunks(Tail(raw_chunks), current_chunk)
             ELSE IF Len(current_chunk) + Len(chunk) + 2 <= ChunkLimit
                  THEN combine_chunks(Tail(raw_chunks), current_chunk \o chunk)
                  ELSE (IF current_chunk # <<>> THEN <<strip(current_chunk)>> ELSE <<>>)
                           \o combine_chunks(Tail(raw_chunks), chunk)

\* content.strip(); the texts of the model hold no stop sequence "<|end|>".
cleaned_content(content) == strip(strip(content))

\* The chunks of a text: none for a text that is empty once stripped.
chunks_of(content) ==
    IF cleaned_content(content) = <<>> THEN <<>>
    ELSE combine_chunks(re_split(cleaned_content(content)), <<>>)

\* The arguments of channel.send, in order: the chunks that are not blank,
\* the first with the author's mention and a space before it.
RECURSIVE messages_to_send(_, _, _)
messages_to_send(chunks, mention, first_chunk) ==
    IF chunks = <<>> THEN <<>>
    ELSE IF strip(Head(chunks)) = <<>> THEN messages_to_send(Tail(chunks), mention, first_chunk)
    ELSE <<IF first_chunk THEN mention \o <<" ">> \o Head(chunks) ELSE Head(chunks)>>
             \o messages_to_send(Tail(chunks), mention, FALSE)

\* channel.send raises for a message Discord rejects; the handler of
\* chunk_and_send_messages logs it and the remaining chunks are not sent.
RECURSIVE sends_until_rejected(_)
sends_until_rejected(messages) ==
    IF messages = <<>> THEN <<>>
    ELSE IF Len(Head(messages)) > DiscordLimit THEN <<Head(messages)>>
    ELSE <<Head(messages)>> \o sends_until_rejected(Tail(messages))

\* message.author.mention
Mentions == { <<"@">> }

\* A run without a boundary that fits the limit only without the mention, and
\* one that does not fit at all.
LongRuns == { [i \in 1..(DiscordLimit - 1) |-> "h"], [i \in 1..(DiscordLimit + 1) |-> "h"] }

Texts == UNION { [1..n -> Alphabet] : n \in 0..MaxTextLen } \cup LongRuns

ChunkAndSend ==
    /\ chunking.pc = "idle"
    /\ chunking' = [chunking EXCEPT
          !.pc = "done",
          !.sent = sends_until_rejected(
                       messages_to_send(chunks_of(chunking.content), chunking.mention, TRUE))]
    /\ UNCHANGED <<version, clock, fetch, notes_manager, handler, db, thought_chain_manager>>
    /\ UNCHANGED ctxVars
    /\ UNCHANGED rlVars
    /\ UNCHANGED auxVars

----------------------------------------------------------------------------
(* UserNotesManager *)

NoteUsers == {"u1", "u2"}

NoteTexts == {"x", "y"}

\* What the storage does to the call: nothing, a read that fails, an open for
\* writing that fails.
NoteFaults == {"none", "read_error", "write_error"}

\* A notes file written by an earlier run.
OldNotesFile ==
    [exists |-> TRUE, valid |-> TRUE, data |-> <<[content |-> "old", timestamp |-> EarlierRun]>>]

\* json.load(f) of the user's file raises
notes_read_raises(file, fault) == file.exists /\ (fault = "read_error" \/ ~file.valid)

\* An add_note that writes only the new note.
add_note_overwriting(mgr, user_id, note, fault, t) ==
    LET file == mgr.files[user_id]
        existing_notes == <<[content |-> note, timestamp |-> t]>>
    IN  IF notes_read_raises(file, fault) \/ fault = "write_error" THEN mgr
        ELSE [mgr EXCEPT !.files[user_id] = [exists |-> TRUE, valid |-> TRUE,
                                            data |-> existing_notes],
                         !.cache = IF version = "legacy" THEN @
                                   ELSE dict_set(@, user_id, existing_notes)]

\* add_note: read the user's file, append, write it back (the current
\* manager then caches the list); any exception is logged and swallowed.
add_note(mgr, user_id, note, fault, t) ==
    LET file == mgr.files[user_id]
        existing_notes == (IF file.exists THEN file.data ELSE <<>>)
                              \o <<[content |-> note, timestamp |-> t]>>
    IN  IF notes_read_raises(file, fault) \/ fault = "write_error" THEN mgr
        ELSE [mgr EXCEPT !.files[user_id] = [exists |-> TRUE, valid |-> TRUE,
                                            data |-> existing_notes],
                         !.cache = IF version = "legacy" THEN @
                                   ELSE dict_set(@, user_id, existing_notes)]

\* A get_user_notes that never looks at the file again once it has answered.
get_user_notes_stale(mgr, user_id, fault) ==
    LET file == mgr.files[user_id]
    IN  IF user_id \in DOMAIN mgr.cache
        THEN [value |-> mgr.cache[user_id], manager |-> mgr]
        ELSE IF file.exists /\ ~notes_read_raises(file, fault)
             THEN [value |-> file.data,
                   manager |-> [mgr EXCEPT !.cache = dict_set(@, user_id, file.data)]]
             ELSE [value |-> <<>>,
                   manager |-> [mgr EXCEPT !.cache = dict_set(@, user_id, <<>>)]]

\* get_user_notes: the value returned and the manager afterwards.  The current
\* manager answers from _cache when it can and caches what it reads.
get_user_notes(mgr, user_id, fault) ==
    LET file == mgr.files[user_id]
    IN  IF version = "current" /\ user_id \in DOMAIN mgr.cache
        THEN [value |-> mgr.cache[user_id], manager |-> mgr]
        ELSE IF file.exists /\ ~notes_read_raises(file, fault)
             THEN [value |-> file.data,
                   manager |-> IF version = "legacy" THEN mgr
                               ELSE [mgr EXCEPT !.cache = dict_set(@, user_id, file.data)]]
             ELSE [value |-> <<>>, manager |-> mgr]

\* One call of the manager, as the log keeps it.
NoteCall(op, user_id, note, fault, value) ==
    [op |-> op, user_id |-> user_id, note |-> note, fault |-> fault, value |-> value]

AddNote(user_id, note, fault) ==
    /\ Len(notes_manager.log) < MaxNoteOps
    /\ notes_manager' =
          [add_note(notes_manager, user_id, note, fault, clock) EXCEPT
              !.log = Append(@, NoteCall("add_note", user_id, note, fault, <<>>))]
    /\ UNCHANGED <<version, clock, fetch, chunking, handler, db, thought_chain_manager>>
    /\ UNCHANGED ctxVars
    /\ UNCHANGED rlVars
    /\ UNCHANGED auxVars

GetUserNotes(user_id, fault) ==
    /\ Len(notes_manager.log) < MaxNoteOps
    /\ LET r == get_user_notes(notes_manager, user_id, fault)
       IN  notes_manager' =
              [r.manager EXCEPT
                  !.log = Append(@, NoteCall("get_user_notes", user_id, None, fault, r.value))]
    /\ UNCHANGED <<version, clock, fetch, chunking, handler, db, thought_chain_manager>>
    /\ UNCHANGED ctxVars
    /\ UNCHANGED rlVars
    /\ UNCHANGED auxVars

\* The process starts again: UserNotesManager() has an empty _cache, the files stay.
NotesRestart ==
    /\ Len(notes_manager.log) < MaxNoteOps
    /\ notes_manager' =
          [notes_manager EXCEPT !.cache = EmptyDict,
                                !.log = Append(@, NoteCall("restart", None, None, "none", <<>>))]
    /\ UNCHANGED <<version, clock, fetch, chunking, handler, db, thought_chain_manager>>
    /\ UNCHANGED ctxVars
    /\ UNCHANGED rlVars
    /\ UNCHANGED auxVars

----------------------------------------------------------------------------
(* on_message *)

\* The channels a message can arrive in.
HandlerChannels == {"c1", "c2"}

\* What the handler can send to the channel.
Response == "response"

ThinkingFallback == "I'm thinking about how to respond to that..."

ErrorFallback == "I encountered an error processing that. Let me try again."

HandlerFallback == "I encountered an error. Please try again."

\* What api_fetch_completion can give: a text, a text that is only the stop
\* sequence, None, or an exception.
LlmOutcomes == {"text", "stop_sequence_only", "none", "raises"}

\* What can happen inside process_and_send_response: nothing, an exception out
\* of handle_image_generation (its typing() or send is not guarded), or a send
\* that Discord rejects inside chunk_and_send_messages.
PostFaults == {"none", "image_raises", "send_rejected"}

\* process_llm_response: the value handed back to on_message ("" is falsy).
process_llm_response(outcome) ==
    CASE outcome = "none" -> ThinkingFallback
      [] outcome = "raises" -> ErrorFallback
      [] outcome = "stop_sequence_only" -> ""
      [] OTHER -> Response

\* One step of the handler that the channel or the context store sees.
Event(op, content) == [op |-> op, content |-> content]

RECURSIVE Sends(_)
\* The texts of the reply chunks among the events.
Sends(events) ==
    IF events = <<>> THEN <<>>
    ELSE IF Head(events).op = "send" THEN <<Head(events).content>> \o Sends(Tail(events))
    ELSE Sends(Tail(events))

\* process_and_send_response that stores the reply before sending it.
process_and_send_response_storing_first(ai_response, fault) ==
    CASE fault = "none" ->
            <<Event("add_message_assistant", ai_response), Event("send", ai_response)>>
      [] fault = "send_rejected" -> <<Event("add_message_assistant", ai_response)>>
      [] OTHER -> <<>>

\* process_and_send_response: what it does, in order.  An exception out of
\* handle_image_generation ends it before anything is sent or stored; a send
\* rejected inside chunk_and_send_messages is swallowed there, and the reply
\* is stored all the same.  Both except clauses only log.
process_and_send_response(ai_response, fault) ==
    CASE fault = "none" ->
            <<Event("send", ai_response), Event("add_message_assistant", ai_response)>>
      [] fault = "send_rejected" -> <<Event("add_message_assistant", ai_response)>>
      [] OTHER -> <<>>

\* An incoming message: who wrote it (the bot itself, another bot, a human),
\* whether it mentions the bot, is a direct message, starts with the bot's
\* name, or starts with "!".
HandlerMessages ==
    [author : {"self", "bot", "human"}, mentioned : BOOLEAN, direct : BOOLEAN,
     named : BOOLEAN, command : BOOLEAN]

\* No message has arrived yet.
NoIncoming ==
    [author |-> None, mentioned |-> FALSE, direct |-> FALSE, named |-> FALSE,
     command |-> FALSE]

\* should_respond_to_message without its check of message.author.bot.
should_respond_answering_bots(message) ==
    /\ message.author # "self"
    /\ message.mentioned \/ message.direct \/ message.named

should_respond_to_message(message) ==
    /\ message.author # "self"
    /\ message.author # "bot"
    /\ message.mentioned \/ message.direct \/ message.named

\* on_message of the current bot up to its decision: a message of the bot
\* itself or one it should not respond to ends the handler at once.
answers(message) == message.author # "self" /\ should_respond_to_message(message)

\* on_message of the legacy bot (src/bot.py), which keeps no context: what it
\* does for a message.
legacy_on_message(message) ==
    IF message.author = "self" THEN <<>>
    ELSE IF message.mentioned \/ message.named \/ message.command
         THEN <<Event("completion", "prompt"), Event("send", Response)>>
         ELSE <<>>

LegacyOnMessage(ch, message) ==
    /\ version = "legacy"
    /\ handler.pc \in {"idle", "done"}
    /\ handler.handled < MaxMessages
    /\ LET events == legacy_on_message(message)
       IN handler' = [handler EXCEPT !.pc = "done",
                                     !.channel = ch,
                                     !.message = message,
                                     !.path = "legacy",
                                     !.failure = {},
                                     !.ai_response = "",
                                     !.sent = Sends(events),
                                     !.trace = events,
                                     !.handled = @ + 1,
                                     !.history = Append(@, [failure |-> {},
                                                            sent |-> Sends(events)])]
    /\ UNCHANGED <<version, clock, fetch, chunking, notes_manager, db, thought_chain_manager>>
    /\ UNCHANGED ctxVars
    /\ UNCHANGED rlVars
    /\ UNCHANGED auxVars

\* A message arrives at on_message of the current bot.
OnMessage(ch, message) ==
    /\ version = "current"
    /\ handler.pc \in {"idle", "done"}
    /\ handler.handled < MaxMessages
    /\ handler' = [handler EXCEPT !.pc = IF ~answers(message) THEN "done"
                                         ELSE IF ch \in handler.conversation_cache
                                         THEN "add_message" ELSE "create",
                                  !.handled = IF ~answers(message) THEN @ + 1 ELSE @,
                                  !.history = IF ~answers(message)
                                              THEN Append(@, [failure |-> {}, sent |-> <<>>])
                                              ELSE @,
                                  !.message = message,
                                  !.channel = ch,
                                  !.path = "on_message",
                                  !.failure = {},
                                  !.ai_response = "",
                                  !.sent = <<>>,
                                  !.trace = <<>>]
    /\ UNCHANGED <<version, clock, fetch, chunking, notes_manager, db, thought_chain_manager>>
    /\ UNCHANGED ctxVars
    /\ UNCHANGED rlVars
    /\ UNCHANGED auxVars

\* ConversationManager.create(channel_id): the class has no such attribute,
\* the lookup raises AttributeError and the cache keeps lacking the channel.
CreateManager ==
    /\ handler.pc = "create"
    /\ handler' = [handler EXCEPT !.pc = "except", !.failure = @ \cup {"create"}]
    /\ UNCHANGED <<version, clock, fetch, chunking, notes_manager, db, thought_chain_manager>>
    /\ UNCHANGED ctxVars
    /\ UNCHANGED rlVars
    /\ UNCHANGED auxVars

\* The user message is stored and the typing indicator is requested.
EnterTyping(outcome) ==
    /\ handler.pc = "add_message"
    /\ handler' = IF outcome = "raises"
                  THEN [handler EXCEPT !.pc = "except", !.failure = @ \cup {"typing"},
                                       !.trace = Append(@, Event("add_message_user", "prompt"))]
                  ELSE [handler EXCEPT !.pc = "llm",
                                       !.trace = Append(@, Event("add_message_user", "prompt"))]
    /\ UNCHANGED <<version, clock, fetch, chunking, notes_manager, db, thought_chain_manager>>
    /\ UNCHANGED ctxVars
    /\ UNCHANGED rlVars
    /\ UNCHANGED auxVars

ProcessLlmResponse(outcome) ==
    /\ handler.pc = "llm"
    /\ LET ai_response == process_llm_response(outcome)
       IN handler' = [handler EXCEPT
                         !.ai_response = ai_response,
                         !.trace = Append(@, Event("completion", "prompt")),
                         !.failure = IF outcome \in {"none", "raises"}
                                     THEN @ \cup {"completion"} ELSE @,
                         !.pc = IF ai_response # "" THEN "post" ELSE "commands"]
    /\ UNCHANGED <<version, clock, fetch, chunking, notes_manager, db, thought_chain_manager>>
    /\ UNCHANGED ctxVars
    /\ UNCHANGED rlVars
    /\ UNCHANGED auxVars

ProcessAndSendResponse(fault) ==
    /\ handler.pc = "post"
    /\ handler' = [handler EXCEPT
                      !.sent = @ \o Sends(process_and_send_response(handler.ai_response, fault)),
                      !.trace = @ \o process_and_send_response(handler.ai_response, fault),
                      !.failure = IF fault # "none" THEN @ \cup {"post"} ELSE @,
                      !.pc = IF handler.path = "thought_chain" THEN "update_chain"
                             ELSE "commands"]
    /\ UNCHANGED <<version, clock, fetch, chunking, notes_manager, db, thought_chain_manager>>
    /\ UNCHANGED ctxVars
    /\ UNCHANGED rlVars
    /\ UNCHANGED auxVars

\* The except clause of on_message: the fallback is sent, and a failure of
\* that send is swallowed by the bare except around it.
HandlerExcept(outcome) ==
    /\ handler.pc = "except"
    /\ handler' = [handler EXCEPT
                      !.sent = IF outcome = "raises" THEN @ ELSE Append(@, HandlerFallback),
                      !.trace = IF outcome = "raises" THEN @
                                ELSE Append(@, Event("send_fallback", HandlerFallback)),
                      !.pc = "commands"]
    /\ UNCHANGED <<version, clock, fetch, chunking, notes_manager, db, thought_chain_manager>>
    /\ UNCHANGED ctxVars
    /\ UNCHANGED rlVars
    /\ UNCHANGED auxVars

\* bot.process_commands(message), after the try statement; the handler returns.
ProcessCommands ==
    /\ handler.pc = "commands"
    /\ handler' = [handler EXCEPT !.pc = "done", !.handled = @ + 1,
                                  !.history = Append(@, [failure |-> handler.failure,
                                                         sent |-> handler.sent])]
    /\ UNCHANGED <<version, clock, fetch, chunking, notes_manager, db, thought_chain_manager>>
    /\ UNCHANGED ctxVars
    /\ UNCHANGED rlVars
    /\ UNCHANGED auxVars

\* handle_thought_chain(message), for a channel that has been answered
\* before: one follow-up thought begins with get_follow_up_prompt, which
\* gives None when the channel has no active chain.
HandleThoughtChain(ch, active) ==
    /\ version = "current"
    /\ handler.pc \in {"idle", "done"}
    /\ handler.handled < MaxMessages
    /\ ch \in handler.conversation_cache
    /\ handler' = [handler EXCEPT !.pc = IF active THEN "follow_up" ELSE "update_chain",
                                  !.channel = ch,
                                  !.path = "thought_chain",
                                  !.message = NoIncoming,
                                  !.failure = {},
                                  !.ai_response = "",
                                  !.sent = <<>>,
                                  !.trace = <<>>]
    /\ UNCHANGED <<version, clock, fetch, chunking, notes_manager, db, thought_chain_manager>>
    /\ UNCHANGED ctxVars
    /\ UNCHANGED rlVars
    /\ UNCHANGED auxVars

\* The follow-up completion, and `conversation_cache[...].add_message` with
\* the assistant reply ahead of process_and_send_response.
FollowUpResponse(outcome) ==
    /\ handler.pc = "follow_up"
    /\ LET ai_response == process_llm_response(outcome)
       IN handler' = [handler EXCEPT
                         !.ai_response = ai_response,
                         !.trace = IF ai_response # ""
                                   THEN @ \o <<Event("completion", "follow_up_prompt"),
                                               Event("add_message_assistant", ai_response)>>
                                   ELSE Append(@, Event("completion", "follow_up_prompt")),
                         !.failure = IF outcome \in {"none", "raises"}
                                     THEN @ \cup {"completion"} ELSE @,
                         !.pc = IF ai_response # "" THEN "post" ELSE "update_chain"]
    /\ UNCHANGED <<version, clock, fetch, chunking, notes_manager, db, thought_chain_manager>>
    /\ UNCHANGED ctxVars
    /\ UNCHANGED rlVars
    /\ UNCHANGED auxVars

\* The follow-up ends (update_chain, or the break out of the loop).
EndThoughtChain ==
    /\ handler.pc = "update_chain"
    /\ handler' = [handler EXCEPT !.pc = "done", !.handled = @ + 1,
                                  !.history = Append(@, [failure |-> handler.failure,
                                                         sent |-> handler.sent])]
    /\ UNCHANGED <<version, clock, fetch, chunking, notes_manager, db, thought_chain_manager>>
    /\ UNCHANGED ctxVars
    /\ UNCHANGED rlVars
    /\ UNCHANGED auxVars

----------------------------------------------------------------------------
(* DatabaseManager *)

DbChannels == {"c1", "c2"}

\* Messages handed to add_message: a full one, one with only a content, and
\* one without content.
DbMessages ==
    { [content |-> "hi", role |-> "assistant", timestamp |-> EarlierRun, user_id |-> "u1"],
      [content |-> "yo"],
      [role |-> "user"] }

\* Where the database can fail: nowhere, when the connection is opened, or in
\* one of the statements of the transaction.
DbFaults == {"none", "connect_error", "write_error"}

\* The row of the messages table that add_message inserts.
row_of(channel_id, message, t) ==
    [channel_id |-> channel_id,
     content |-> message["content"],
     role |-> dict_get(message, "role", "user"),
     timestamp |-> dict_get(message, "timestamp", t),
     user_id |-> dict_get(message, "user_id", None)]

\* The transaction raises on a failing statement and on message["content"]
\* of a message that has none.
transaction_raises(message, fault) == fault = "write_error" \/ "content" \notin DOMAIN message

\* add_message: the tables afterwards, whether an error was logged and
\* whether the call raised.  A failed transaction is rolled back, logged and
\* raised again; a failed connect is outside the try statement.
db_add_message(d, channel_id, message, fault, t) ==
    IF fault = "connect_error"
    THEN [tables |-> d.tables, logged |-> FALSE, raised |-> TRUE]
    ELSE IF transaction_raises(message, fault)
    THEN [tables |-> d.tables, logged |-> TRUE, raised |-> TRUE]
    ELSE [tables |-> [conversations |-> dict_set(d.tables.conversations, channel_id, t),
                      messages |-> Append(d.tables.messages, row_of(channel_id, message, t))],
          logged |-> FALSE, raised |-> FALSE]

DbAddMessage(channel_id, message, fault) ==
    /\ Len(db.calls) < MaxDbOps
    /\ LET r == db_add_message(db, channel_id, message, fault, clock)
       IN db' = [tables |-> r.tables,
                 calls |-> Append(db.calls, [channel_id |-> channel_id, message |-> message,
                                             fault |-> fault,
                                             logged |-> r.logged, raised |-> r.raised])]
    /\ UNCHANGED <<version, clock, fetch, chunking, notes_manager, handler, thought_chain_manager>>
    /\ UNCHANGED ctxVars
    /\ UNCHANGED rlVars
    /\ UNCHANGED auxVars

----------------------------------------------------------------------------
(* ThoughtChainManager *)

ChainChannels == {"c1", "c2"}

\* timedelta(minutes=1), in seconds.
ChainCooldown == 60

\* Messages: "Why" and "ok".
ChainMessages == { <<"W", "h", "y">>, <<"o", "k">> }

\* str.lower over the letters of ChainMessages.
lower(s) == [i \in 1..Len(s) |-> IF s[i] = "W" THEN "w" ELSE s[i]]

\* sub in s
contains(s, sub) == \E i \in 1..(Len(s) - Len(sub) + 1) : SubSeq(s, i, i + Len(sub) - 1) = sub

triggers ==
    { <<"w", "h", "y">>, <<"h", "o", "w">>, <<"w", "h", "a", "t", " ", "i", "f">>,
      <<"i", "m", "a", "g", "i", "n", "e">>, <<"w", "o", "n", "d", "e", "r">>,
      <<"c", "o", "n", "s", "i", "d", "e", "r">>, <<"b", "e", "l", "i", "e", "v", "e">>,
      <<"a", "s", "k">>, <<"!">>, <<"c", "o", "o", "l">>, <<"t", "h", "i", "n", "k">>,
      <<"?">>, <<".", ".", ".">> }

should_continue_chain(message_content) ==
    \E trigger \in triggers : contains(lower(message_content), trigger)

\* ThoughtChain(original_message = message, last_response = response): no
\* decision of the manager reads last_response, which is left out.
ThoughtChain(message) == [original_message |-> message, chain_count |-> 0]

\* maybe_start_chain with one cooldown for all channels.
maybe_start_chain_shared_cooldown(mgr, channel_id, message, current_time) ==
    IF \E ch \in DOMAIN mgr.last_chain_time :
          current_time - mgr.last_chain_time[ch] < ChainCooldown
    THEN [value |-> FALSE, manager |-> mgr]
    ELSE IF should_continue_chain(message)
    THEN [value |-> TRUE,
          manager |-> [mgr EXCEPT
              !.active_chains = dict_set(@, channel_id, ThoughtChain(message)),
              !.last_chain_time = dict_set(@, channel_id, current_time)]]
    ELSE [value |-> FALSE, manager |-> mgr]

\* maybe_start_chain: the value returned and the manager afterwards.  The body
\* runs under self._lock and holds no await, so a call is one step.
maybe_start_chain(mgr, channel_id, message, current_time) ==
    IF /\ channel_id \in DOMAIN mgr.last_chain_time
       /\ current_time - mgr.last_chain_time[channel_id] < ChainCooldown
    THEN [value |-> FALSE, manager |-> mgr]
    ELSE IF should_continue_chain(message)
    THEN [value |-> TRUE,
          manager |-> [mgr EXCEPT
              !.active_chains = dict_set(@, channel_id, ThoughtChain(message)),
              !.last_chain_time = dict_set(@, channel_id, current_time)]]
    ELSE [value |-> FALSE, manager |-> mgr]

ChainOp(op, channel_id, value) == [op |-> op, channel_id |-> channel_id, value |-> value]

\* dict without one key
dict_del(d, key) == [k \in DOMAIN d \ {key} |-> d[k]]

\* An update_chain that ends a chain one response late.
update_chain_ending_late(mgr, channel_id) ==
    IF channel_id \in DOMAIN mgr.active_chains
    THEN LET chain_count == mgr.active_chains[channel_id].chain_count + 1
         IN  IF chain_count > MaxChainCount
             THEN [mgr EXCEPT !.active_chains = dict_del(@, channel_id)]
             ELSE [mgr EXCEPT !.active_chains[channel_id].chain_count = chain_count]
    ELSE mgr

\* update_chain: the manager afterwards.  The body runs under self._lock and
\* holds no await, so a call is one step.
update_chain(mgr, channel_id) ==
    IF channel_id \in DOMAIN mgr.active_chains
    THEN LET chain_count == mgr.active_chains[channel_id].chain_count + 1
         IN  IF chain_count >= MaxChainCount
             THEN [mgr EXCEPT !.active_chains = dict_del(@, channel_id)]
             ELSE [mgr EXCEPT !.active_chains[channel_id].chain_count = chain_count]
    ELSE mgr

\* get_follow_up_prompt: None without an active chain, else one of the
\* reprompt templates filled with the last response.
get_follow_up_prompt(mgr, channel_id) ==
    IF channel_id \in DOMAIN mgr.active_chains THEN "prompt" ELSE None

UpdateChain(channel_id) ==
    /\ thought_chain_manager.updates < MaxUpdates
    /\ thought_chain_manager' =
          [update_chain(thought_chain_manager, channel_id) EXCEPT
              !.updates = @ + 1,
              !.last_op = ChainOp("update_chain", channel_id, None)]
    /\ UNCHANGED <<version, clock, fetch, chunking, notes_manager, handler, db>>
    /\ UNCHANGED ctxVars
    /\ UNCHANGED rlVars
    /\ UNCHANGED auxVars

GetFollowUpPrompt(channel_id) ==
    /\ thought_chain_manager' =
          [thought_chain_manager EXCEPT
              !.last_op = ChainOp("get_follow_up_prompt", channel_id,
                                  get_follow_up_prompt(thought_chain_manager, channel_id))]
    /\ UNCHANGED <<version, clock, fetch, chunking, notes_manager, handler, db>>
    /\ UNCHANGED ctxVars
    /\ UNCHANGED rlVars
    /\ UNCHANGED auxVars

MaybeStartChain(channel_id, message) ==
    /\ Len(thought_chain_manager.calls) < MaxChainCalls
    /\ LET r == maybe_start_chain(thought_chain_manager, channel_id, message, clock)
       IN thought_chain_manager' =
             [r.manager EXCEPT !.calls = Append(@, [channel_id |-> channel_id,
                                                    message |-> message,
                                                    time |-> clock,
                                                    value |-> r.value]),
                               !.last_op = ChainOp("maybe_start_chain", channel_id, None)]
    /\ UNCHANGED <<version, clock, fetch, chunking, notes_manager, handler, db>>
    /\ UNCHANGED ctxVars
    /\ UNCHANGED rlVars
    /\ UNCHANGED auxVars

\* datetime.now() advances.
ChainTick ==
    /\ clock + ChainStep <= MaxChainClock
    /\ clock' = clock + ChainStep
    /\ UNCHANGED <<version, fetch>>
    /\ UNCHANGED extVars
    /\ UNCHANGED ctxVars
    /\ UNCHANGED rlVars

----------------------------------------------------------------------------
(* Concurrent calls of manage_context *)

McTasks == {"t1", "t2", "t3"}

McChannels == {"c1", "c2"}

\* The message task t passes, in the shape its caller gives it.
McMessage(t) == [role |-> "user", content |-> t, user_id |-> "u1"]

ContentsOfContext(context) == [i \in 1..Len(context) |-> context[i].content]

\* The contents manage_context reads from a file: data[-MAX_CONTEXT_SIZE:].
LoadedContents(file) ==
    IF file.exists /\ file.valid THEN ContentsOfContext(LastN(file.data, MAX_CONTEXT_SIZE))
    ELSE <<>>

\* A task calls manage_context(channel_id, new_message) and reaches
\* `async with cache_lock`.
McCall(t, ch, m) ==
    /\ managing.pc[t] = "idle"
    /\ managing' = [managing EXCEPT !.pc[t] = "waiting", !.channel[t] = ch, !.message[t] = m]
    /\ UNCHANGED <<version, clock, fetch, chunking, notes_manager, handler, db,
                   thought_chain_manager, retry, post_processing>>
    /\ UNCHANGED ctxVars
    /\ UNCHANGED rlVars

\* The task gets cache_lock and makes sure the channel has a manager.
McEnter(t) ==
    /\ managing.pc[t] = "waiting"
    /\ managing.cache_lock = None
    /\ LET ch == managing.channel[t]
           r == ensure_manager(conversation_cache, ch, clock)
       IN  /\ conversation_cache' = r.cache
           /\ managing' =
                 [managing EXCEPT
                     !.cache_lock = t,
                     !.pc[t] = "locked",
                     !.created[ch] = IF r.created THEN @ + 1 ELSE @,
                     !.passed[ch] = IF r.created THEN @ \o LoadedContents(files[ch]) ELSE @]
    /\ UNCHANGED <<version, clock, files, last, appends, fetch, chunking, notes_manager,
                   handler, db, thought_chain_manager, retry, post_processing>>
    /\ UNCHANGED rlVars

\* `if new_message: add_message(new_message)`, and the lock is released.
McAppend(t) ==
    /\ managing.pc[t] = "locked"
    /\ LET ch == managing.channel[t]
           m == managing.message[t]
       IN  /\ conversation_cache' =
                 IF m # NoMessage
                 THEN [conversation_cache EXCEPT ![ch] = add_message(@, m, clock)]
                 ELSE conversation_cache
           /\ managing' =
                 [managing EXCEPT
                     !.cache_lock = None,
                     !.pc[t] = "read",
                     !.passed[ch] = IF m # NoMessage THEN Append(@, m.content) ELSE @]
    /\ UNCHANGED <<version, clock, files, last, appends, fetch, chunking, notes_manager,
                   handler, db, thought_chain_manager, retry, post_processing>>
    /\ UNCHANGED rlVars

\* manager = conversation_cache[channel_id]; return manager.get_relevant_context()
McReturn(t) ==
    /\ managing.pc[t] = "read"
    /\ LET ch == managing.channel[t]
           got == get_relevant_context(conversation_cache[ch], None, clock)
       IN  /\ conversation_cache' = [conversation_cache EXCEPT ![ch] = got.manager]
           /\ managing' = [managing EXCEPT !.pc[t] = "done", !.value[t] = got.value]
    /\ UNCHANGED <<version, clock, files, last, appends, fetch, chunking, notes_manager,
                   handler, db, thought_chain_manager, retry, post_processing>>
    /\ UNCHANGED rlVars

----------------------------------------------------------------------------
(* retry_with_exponential_backoff *)

\* What one `await func(*args)` does: it returns a value, or raises
\* asyncio.TimeoutError, aiohttp.ClientError or another Exception.
RetryValues == {"v1", "v2"}

RetryExceptions == {"TimeoutError", "ClientError", "Exception"}

RetryOutcomes ==
    [kind : {"returns"}, value : RetryValues] \cup [kind : {"raises"}, value : RetryExceptions]

\* The base_delay arguments of the calls.
BaseDelays == {1, 2}

RECURSIVE Pow2(_)
Pow2(n) == IF n = 0 THEN 1 ELSE 2 * Pow2(n - 1)

\* delay = base_delay * (2 ** attempt)
backoff_delay(base_delay, attempt) == base_delay * Pow2(attempt)

Pending == [kind |-> "pending", value |-> None]

\* A loop that returns None after the last failure instead of raising.
retry_after_call_swallowing(outcome, attempt, maxr, base_delay) ==
    IF outcome.kind = "returns"
    THEN [next |-> "done", result |-> outcome, delay |-> 0]
    ELSE IF attempt = maxr - 1
         THEN [next |-> "done", result |-> [kind |-> "returns", value |-> None], delay |-> 0]
         ELSE [next |-> "sleep", result |-> Pending, delay |-> backoff_delay(base_delay, attempt)]

\* One pass of the loop body after func has returned or raised: both except
\* clauses do the same.
retry_after_call(outcome, attempt, maxr, base_delay) ==
    IF outcome.kind = "returns"
    THEN [next |-> "done", result |-> outcome, delay |-> 0]
    ELSE IF attempt = maxr - 1
         THEN [next |-> "done", result |-> outcome, delay |-> 0]
         ELSE [next |-> "sleep", result |-> Pending, delay |-> backoff_delay(base_delay, attempt)]

RetryRecord(pc, maxr, base_delay) ==
    [pc |-> pc, max_retries |-> maxr, base_delay |-> base_delay, attempt |-> 0,
     log |-> <<>>, slept |-> <<>>, delay |-> 0, result |-> Pending]

\* return await func(*args), and the except clause if it raises
RetryCall(outcome) ==
    /\ retry.pc = "call"
    /\ LET step == retry_after_call(outcome, retry.attempt, retry.max_retries, retry.base_delay)
       IN  retry' = [retry EXCEPT !.pc = step.next,
                                  !.log = Append(@, outcome),
                                  !.delay = step.delay,
                                  !.result = step.result]
    /\ UNCHANGED <<version, clock, fetch, chunking, notes_manager, handler, db,
                   thought_chain_manager, managing, post_processing>>
    /\ UNCHANGED ctxVars
    /\ UNCHANGED rlVars

\* await asyncio.sleep(delay), then the next iteration of the for loop
RetrySleep ==
    /\ retry.pc = "sleep"
    /\ retry' = [retry EXCEPT !.pc = "call",
                              !.slept = Append(@, retry.delay),
                              !.attempt = @ + 1]
    /\ UNCHANGED <<version, clock, fetch, chunking, notes_manager, handler, db,
                   thought_chain_manager, managing, post_processing>>
    /\ UNCHANGED ctxVars
    /\ UNCHANGED rlVars

----------------------------------------------------------------------------
(* process_and_send_response: the text it works on *)

RECURSIVE Concat(_)
\* The texts joined, in order.
Concat(texts) == IF texts = <<>> THEN <<>> ELSE Head(texts) \o Concat(Tail(texts))

OpenTag == <<"<", "g", "e", "n", "e", "r", "a", "t", "e", "_", "i", "m", "a", "g", "e", ">">>

CloseTag == <<"<", "/", "g", "e", "n", "e", "r", "a", "t", "e", "_", "i", "m", "a", "g", "e", ">">>

Digits == {"1", "2"}

\* The characters of the model's texts that [^\w\s,] matches.
Symbols == {"<", ">", "/", "!", "?", ".", "@"}

\* The alternatives of (You know,?|Haha,?|Well,?), in order.
Interjections == << <<"Y", "o", "u", " ", "k", "n", "o", "w">>, <<"H", "a", "h", "a">>, <<"W", "e", "l", "l">> >>

\* s[i:].startswith(pat)
StartsAt(s, i, pat) == i + Len(pat) - 1 <= Len(s) /\ SubSeq(s, i, i + Len(pat) - 1) = pat

\* The length of the match of <@!?\d+> at i, or 0.
mention_at(s, i) ==
    IF ~StartsAt(s, i, <<"<", "@">>) THEN 0
    ELSE LET k == IF i + 2 <= Len(s) /\ s[i + 2] = "!" THEN i + 3 ELSE i + 2
             n == run(s, k, Digits)
         IN  IF n >= 1 /\ k + n <= Len(s) /\ s[k + n] = ">" THEN k + n - i + 1 ELSE 0

\* The length of the match of (You know,?|Haha,?|Well,?) at i, or 0.
interjection_at(s, i) ==
    IF \A a \in 1..Len(Interjections) : ~StartsAt(s, i, Interjections[a]) THEN 0
    ELSE LET a == CHOOSE b \in 1..Len(Interjections) :
                     /\ StartsAt(s, i, Interjections[b])
                     /\ \A c \in 1..(b - 1) : ~StartsAt(s, i, Interjections[c])
             n == Len(Interjections[a])
         IN  IF i + n <= Len(s) /\ s[i + n] = "," THEN n + 1 ELSE n

\* The length of the match of [^\w\s,] at i, or 0.
symbol_at(s, i) == IF s[i] \in Symbols THEN 1 ELSE 0

\* The positions where </generate_image> closes a tag opened at i: the prompt
\* in between is matched by .*? and holds no newline.
closings(s, i) ==
    { j \in (i + Len(OpenTag))..Len(s) :
        /\ StartsAt(s, j, CloseTag)
        /\ \A k \in (i + Len(OpenTag))..(j - 1) : s[k] # "\n" }

\* The length of the match of <generate_image>(.*?)</generate_image> at i, or 0.
image_tag_at(s, i) ==
    IF ~StartsAt(s, i, OpenTag) \/ closings(s, i) = {} THEN 0
    ELSE (CHOOSE j \in closings(s, i) : \A k \in closings(s, i) : j <= k) + Len(CloseTag) - i

match_at(pattern, s, i) ==
    CASE pattern = "mention" -> mention_at(s, i)
      [] pattern = "interjection" -> interjection_at(s, i)
      [] pattern = "symbol" -> symbol_at(s, i)
      [] pattern = "image_tag" -> image_tag_at(s, i)

RECURSIVE re_sub_from(_, _, _)
\* re.sub(pattern, '', s), from position i on.
re_sub_from(pattern, s, i) ==
    IF i > Len(s) THEN <<>>
    ELSE LET n == match_at(pattern, s, i)
         IN  IF n > 0 THEN re_sub_from(pattern, s, i + n)
             ELSE <<s[i]>> \o re_sub_from(pattern, s, i + 1)

re_sub(pattern, s) == re_sub_from(pattern, s, 1)

RECURSIVE count_from(_, _, _)
\* len(re.findall(pattern, s)), from position i on.
count_from(pattern, s, i) ==
    IF i > Len(s) THEN 0
    ELSE LET n == match_at(pattern, s, i)
         IN  IF n > 0 THEN 1 + count_from(pattern, s, i + n) ELSE count_from(pattern, s, i + 1)

RECURSIVE image_prompts_from(_, _)
\* match.group(1) of every match of re.finditer, from position i on.
image_prompts_from(s, i) ==
    IF i > Len(s) THEN <<>>
    ELSE LET n == image_tag_at(s, i)
         IN  IF n > 0
             THEN <<SubSeq(s, i + Len(OpenTag), i + n - Len(CloseTag) - 1)>>
                     \o image_prompts_from(s, i + n)
             ELSE image_prompts_from(s, i + 1)

\* adjust_tone: interjections go; more than two symbols and all symbols go.
adjust_tone(ai_response) ==
    LET calm == re_sub("interjection", ai_response)
        emoji_count == count_from("symbol", calm, 1)
    IN  strip(IF emoji_count > EmojiLimit THEN re_sub("symbol", calm) ELSE calm)

\* handle_image_generation: the prompts generate_image is called with, and
\* the text without its tags.
handle_image_generation(ai_response) ==
    [prompts |-> image_prompts_from(ai_response, 1),
     text |-> re_sub("image_tag", ai_response)]

\* The body of process_and_send_response up to chunk_and_send_messages.
post_process(ai_response) == handle_image_generation(adjust_tone(re_sub("mention", ai_response)))

Befores == { <<>>, <<"h", "i", " ">>, <<"W", "e", "l", "l", ",", " ", "h", "i", ".", " ">>, <<"h", "i", "!", " ">>, <<"<", "@", "!", "1", "2", ">", " ", "h", "i", " ">> }

ImagePrompts == { <<"c", "a", "t">>, <<"a", " ", "b">>, <<"d", "o", "g">> }

Afters == { <<>>, <<" ", "o", "k">>, <<" ", "o", "k", "?">> }

Tag(prompt) == OpenTag \o prompt \o CloseTag

\* One completion text: what stands before the tags, the prompts of its tags
\* and what follows them.
CompletionText(before, prompts, after) ==
    before \o Concat([i \in 1..Len(prompts) |-> Tag(prompts[i])]) \o after

TagLists == UNION { [1..n -> ImagePrompts] : n \in 0..MaxTags }

ProcessText ==
    /\ post_processing.pc = "idle"
    /\ LET r == post_process(post_processing.ai_response)
       IN  post_processing' = [post_processing EXCEPT !.pc = "done",
                                                      !.generated = r.prompts,
                                                      !.content = r.text]
    /\ UNCHANGED <<version, clock, fetch, chunking, notes_manager, handler, db,
                   thought_chain_manager, managing, retry>>
    /\ UNCHANGED ctxVars
    /\ UNCHANGED rlVars

----------------------------------------------------------------------------
(* Initial values of the other components *)

InitChunking == chunking = [pc |-> "idle", content |-> <<>>, mention |-> <<>>, sent |-> <<>>]

InitNotes ==
    notes_manager = [files |-> [u \in NoteUsers |-> NoFile], cache |-> EmptyDict,
                     initial |-> [u \in NoteUsers |-> NoFile], log |-> <<>>]

HandlerRecord(cache) ==
    [pc |-> "idle", conversation_cache |-> cache, channel |-> None, message |-> NoIncoming,
     path |-> None,
     failure |-> {},
     ai_response |-> "", sent |-> <<>>, trace |-> <<>>, handled |-> 0, history |-> <<>>]

InitHandler == handler = HandlerRecord({})

InitDb == db = [tables |-> [conversations |-> EmptyDict, messages |-> <<>>], calls |-> <<>>]

InitThoughtChains ==
    thought_chain_manager = [active_chains |-> EmptyDict, last_chain_time |-> EmptyDict,
                             calls |-> <<>>, updates |-> 0,
                             last_op |-> ChainOp(None, None, None)]

InitManaging ==
    managing = [cache_lock |-> None,
                pc |-> [t \in McTasks |-> "idle"],
                channel |-> [t \in McTasks |-> None],
                message |-> [t \in McTasks |-> NoMessage],
                value |-> [t \in McTasks |-> <<>>],
                created |-> [ch \in McChannels |-> 0],
                passed |-> [ch \in McChannels |-> <<>>]]

InitRetry == retry = RetryRecord("idle", max_retries, 1)

InitPostProcessing ==
    post_processing = [pc |-> "idle", tags |-> <<>>, ai_response |-> <<>>,
                       generated |-> <<>>, content |-> <<>>]

InitAux ==
    /\ InitManaging
    /\ InitRetry
    /\ InitPostProcessing

InitExt ==
    /\ InitChunking
    /\ InitNotes
    /\ InitHandler
    /\ InitDb
    /\ InitThoughtChains
    /\ InitAux

----------------------------------------------------------------------------
(* fetch_completion_with_hermes *)

NoResult == [kind |-> "pending", text |-> <<>>]

ReturnNone == [kind |-> "none", text |-> <<>>]

ReturnText(text) == [kind |-> "text", text |-> text]

\* The exception leaves fetch_completion_with_hermes.
Raised == [kind |-> "raised", text |-> <<>>]

\* The contents a 200 response may carry: " hI ", "h.h" and the empty string.
Contents == { <<" ", "h", "I", " ">>, <<"h", ".", "h">>, <<>> }

\* What one session.post can come to: a ClientError or a timeout raised by
\* the request, a status other than 200, a 200 whose body is not the expected
\* JSON, a 200 whose JSON has no choices, or a 200 with a completion.
TransportErrors == {"client_error", "timeout"}

Outcome(kind, content) == [kind |-> kind, content |-> content]

Outcomes ==
    {Outcome(k, <<>>) : k \in TransportErrors \cup {"non200", "bad_json", "no_choices"}}
        \cup {Outcome("ok", c) : c \in Contents}

\* The lists notes_manager.get_user_notes may return: none, one note, six
\* notes, and a note whose file entry has lost its content.
NotesInputs ==
    { <<>>,
      <<[content |-> "likes ai", timestamp |-> EarlierRun]>>,
      [i \in 1..6 |-> [content |-> IF i = 1 THEN "oldest note" ELSE "likes ai",
                       timestamp |-> EarlierRun]],
      <<[timestamp |-> EarlierRun]>> }

\* note['content'] for note in user_notes[-5:] raises KeyError
notes_raise(user_notes) ==
    \E i \in 1..Len(LastN(user_notes, 5)) : "content" \notin DOMAIN LastN(user_notes, 5)[i]

\* An outer handler that lets the exception through.
outer_except_reraises == Raised

\* except Exception as e: ... return None (the outermost handler of either client)
outer_except == ReturnNone

\* A loop that counts one attempt too many.
last_attempt_off_by_one(attempt) == attempt = max_retries

\* attempt == max_retries - 1 (legacy: not attempt < max_retries - 1)
last_attempt(attempt) == attempt = max_retries - 1

\* retry_with_exponential_backoff: delay = base_delay * (2 ** attempt), base_delay = 1.0
current_delay(attempt) == Pow2(attempt)

\* await asyncio.sleep(retry_delay * (attempt + 1)), retry_delay = 1.0
legacy_delay(attempt) == attempt + 1

Continue(delay) == [next |-> "backoff", delay |-> delay, result |-> NoResult, store |-> FALSE]

Finish(result) == [next |-> "done", delay |-> 0, result |-> result, store |-> FALSE]

\* The current client after one session.post: retry_with_exponential_backoff
\* catches what the post raises; whatever response comes back leaves it.
current_after_post(outcome, attempt) ==
    IF outcome.kind \in TransportErrors
    THEN IF last_attempt(attempt) THEN Finish(outer_except)
         ELSE Continue(current_delay(attempt))
    ELSE IF outcome.kind = "bad_json" THEN Finish(outer_except)
    ELSE IF outcome.kind = "ok" THEN Finish(ReturnText(current_clean(outcome.content)))
    ELSE Finish(ReturnNone)

\* The legacy client after one session.post: its loop retries what the post
\* or the handling of a 200 raises, and a status other than 200.
legacy_after_post(outcome, attempt) ==
    IF outcome.kind = "ok"
    THEN [Finish(ReturnText(strip(outcome.content))) EXCEPT !.store = TRUE]
    ELSE IF outcome.kind = "non200"
         THEN IF last_attempt(attempt) THEN Finish(ReturnNone)
              ELSE Continue(legacy_delay(attempt))
         ELSE IF last_attempt(attempt) THEN Finish(outer_except)
              ELSE Continue(legacy_delay(attempt))

after_post(outcome, attempt) ==
    IF version = "legacy" THEN legacy_after_post(outcome, attempt)
    ELSE current_after_post(outcome, attempt)

\* The prompt of the model's one completion request and the user who sent it.
Prompts == {"why"}

Users == {"u1"}

\* config.system_prompt; a prompt text is the sequence of its parts.
system_prompt == "system_prompt"

\* notes_context: "" without notes, otherwise the heading and the content of
\* each of user_notes[-5:]
notes_context(user_notes) ==
    IF user_notes = <<>> THEN <<>>
    ELSE <<"Previous notes about this user:">>
            \o [i \in 1..Len(LastN(user_notes, 5)) |-> LastN(user_notes, 5)[i].content]

\* manager.get_user_profile(user_id) and ', '.join(user_profile.get('interests', []))
interests_of(mgr, user_id) ==
    IF version = "legacy" THEN {} ELSE dict_get(mgr.user_profiles, user_id, {})

\* f"{system_prompt}\n\n{notes_context}", in the current client followed by
\* the user's interests when there are any
enhanced_system_prompt(user_notes, interests) ==
    <<system_prompt>> \o notes_context(user_notes)
        \o (IF interests # {} THEN <<"User's interests:", interests>> ELSE <<>>)

\* Cleo's last response: the content of the last assistant message of the
\* context, "" when there is none.
RECURSIVE cleo_last_response(_)
cleo_last_response(context) ==
    IF context = <<>> THEN ""
    ELSE IF context[Len(context)].role = "assistant" THEN context[Len(context)].content
    ELSE cleo_last_response(SubSeq(context, 1, Len(context) - 1))

\* A message list that puts the new prompt before the context.
construct_metaprompt_prompt_first(user_message, last_response, context, system_content) ==
    <<[role |-> "system", content |-> system_content],
      [role |-> "user", content |-> user_message]>>
        \o [i \in 1..Len(LastN(context, 5)) |->
                [role |-> LastN(context, 5)[i].role, content |-> LastN(context, 5)[i].content]]
        \o <<[role |-> "assistant", content |-> last_response],
             [role |-> "system", content |-> <<"metaprompt", last_response>>],
             [role |-> "system", content |-> "chain_of_thought_instruction"]>>

\* construct_metaprompt: the system message, context[-5:], the user's message,
\* Cleo's last response, the metaprompt made of it, the chain-of-thought instruction.
construct_metaprompt(user_message, last_response, context, system_content) ==
    <<[role |-> "system", content |-> system_content]>>
        \o [i \in 1..Len(LastN(context, 5)) |->
                [role |-> LastN(context, 5)[i].role, content |-> LastN(context, 5)[i].content]]
        \o <<[role |-> "user", content |-> user_message],
             [role |-> "assistant", content |-> last_response],
             [role |-> "system", content |-> <<"metaprompt", last_response>>],
             [role |-> "system", content |-> "chain_of_thought_instruction"]>>

\* The legacy client's list: the system message, every context message as a
\* user message, the prompt.
legacy_messages(prompt, context, system_content) ==
    <<[role |-> "system", content |-> system_content]>>
        \o [i \in 1..Len(context) |-> [role |-> "user", content |-> context[i].content]]
        \o <<[role |-> "user", content |-> prompt]>>

\* The "messages" of the request body.
request_messages(prompt, context, user_notes, interests) ==
    IF version = "legacy"
    THEN legacy_messages(prompt, context, enhanced_system_prompt(user_notes, {}))
    ELSE construct_metaprompt(prompt, cleo_last_response(context), context,
                              enhanced_system_prompt(user_notes, interests))

\* The call up to its first session.post: rate_limiter.acquire() (current
\* client, with a free slot), manage_context(channel_id), the user's notes.
FetchBegin(ch, user_id, prompt, user_notes) ==
    /\ fetch.pc = "idle"
    /\ version = "current" => ~at_capacity(in_window(requests, clock))
    /\ requests' = IF version = "current" THEN Append(in_window(requests, clock), clock)
                   ELSE requests
    /\ LET r == manage_context(conversation_cache, ch, NoMessage, clock)
       IN  /\ conversation_cache' = r.cache
           /\ last' = Call("manage_context", ch, NoMessage, r.before, r.value, {})
           /\ fetch' =
                IF notes_raise(user_notes)
                THEN [fetch EXCEPT !.pc = "done", !.channel = ch, !.prompt = prompt,
                                   !.user_notes = user_notes, !.context = r.value,
                                   !.result = outer_except]
                ELSE [fetch EXCEPT !.pc = "posting", !.channel = ch, !.prompt = prompt,
                                   !.user_notes = user_notes, !.context = r.value,
                                   !.interests = interests_of(r.cache[ch], user_id),
                                   !.messages =
                                       request_messages(prompt, r.value, user_notes,
                                                        interests_of(r.cache[ch], user_id))]
    /\ UNCHANGED <<version, clock, files, appends, rl_lock, rl_pc, rl_local, calls>>
    /\ UNCHANGED extVars

\* One session.post and what the client does with its outcome.
FetchPost(outcome) ==
    /\ fetch.pc = "posting"
    /\ LET step == after_post(outcome, fetch.attempt)
       IN  /\ fetch' = [fetch EXCEPT !.pc = step.next,
                                     !.log = Append(@, outcome),
                                     !.delay = step.delay,
                                     !.result = step.result]
           /\ IF step.store
              THEN LET m == [role |-> "assistant", content |-> step.result.text]
                       r == manage_context(conversation_cache, fetch.channel, m, clock)
                   IN  /\ conversation_cache' = r.cache
                       /\ last' = Call("manage_context", fetch.channel, m, r.before, r.value, {})
              ELSE UNCHANGED <<conversation_cache, last>>
    /\ UNCHANGED <<version, clock, files, appends>>
    /\ UNCHANGED rlVars
    /\ UNCHANGED extVars

\* The sleep between two attempts.
FetchBackoff ==
    /\ fetch.pc = "backoff"
    /\ clock' = clock + fetch.delay
    /\ fetch' = [fetch EXCEPT !.pc = "posting", !.attempt = @ + 1,
                              !.slept = Append(@, fetch.delay), !.delay = 0]
    /\ UNCHANGED version
    /\ UNCHANGED ctxVars
    /\ UNCHANGED rlVars
    /\ UNCHANGED auxVars
    /\ UNCHANGED extVars

InitFetch ==
    fetch = [pc |-> "idle", channel |-> None, prompt |-> None, user_notes |-> <<>>,
             context |-> <<>>, interests |-> {}, messages |-> <<>>, attempt |-> 0,
             log |-> <<>>, delay |-> 0, slept |-> <<>>, result |-> NoResult]

InitFetchOnly ==
    /\ version \in Versions
    /\ clock = 0
    /\ conversation_cache = EmptyDict
    /\ files \in [Channels -> InitFiles]
    /\ last = Call("start", None, NoMessage, <<>>, <<>>, {})
    /\ appends = 0
    /\ InitLimiter
    /\ InitFetch
    /\ InitExt

NextFetch ==
    \/ \E ch \in Channels, user_id \in Users, prompt \in Prompts, user_notes \in NotesInputs :
          FetchBegin(ch, user_id, prompt, user_notes)
    \/ \E outcome \in Outcomes : FetchPost(outcome)
    \/ FetchBackoff

----------------------------------------------------------------------------
(* Initial states and steps of the rate limiter alone *)

InitLimiterOnly ==
    /\ version = "current"
    /\ clock = 0
    /\ conversation_cache = EmptyDict
    /\ files = [ch \in Channels |-> NoFile]
    /\ last = Call("start", None, NoMessage, <<>>, <<>>, {})
    /\ appends = 0
    /\ InitLimiter
    /\ InitFetch
    /\ InitExt

NextLimiter ==
    \/ \E t \in Callers : Acquire(t)
    \/ \E t \in Callers : Resume(t)
    \/ \E t \in Callers : Wake(t)
    \/ \E d \in LimiterSteps : LimiterTick(d)

----------------------------------------------------------------------------
(* Actions of the context store *)

ManageContext(ch, m) ==
    /\ m # NoMessage => appends < MaxAppends
    /\ appends' = IF m # NoMessage THEN appends + 1 ELSE appends
    /\ LET r == manage_context(conversation_cache, ch, m, clock)
       IN  /\ conversation_cache' = r.cache
           /\ last' = Call("manage_context", ch, m, r.before, r.value, {})
    /\ UNCHANGED <<version, clock, files>>
    /\ UNCHANGED rlVars
    /\ UNCHANGED fetch
    /\ UNCHANGED extVars

AddMessage(ch, m) ==
    /\ ch \in DOMAIN conversation_cache
    /\ appends < MaxAppends
    /\ appends' = appends + 1
    /\ conversation_cache' = [conversation_cache EXCEPT ![ch] = add_message(@, m, clock)]
    /\ last' = Call("add_message", ch, m, conversation_cache[ch].context, <<>>, {})
    /\ UNCHANGED <<version, clock, files>>
    /\ UNCHANGED rlVars
    /\ UNCHANGED fetch
    /\ UNCHANGED extVars

SaveContext(failing) ==
    /\ files' = save_context(conversation_cache, failing)
    /\ last' = Call("save_context", None, NoMessage, <<>>, <<>>, failing)
    /\ UNCHANGED <<version, clock, conversation_cache, appends>>
    /\ UNCHANGED rlVars
    /\ UNCHANGED fetch
    /\ UNCHANGED extVars

Restart ==
    /\ conversation_cache # EmptyDict
    /\ conversation_cache' = EmptyDict
    /\ last' = Call("restart", None, NoMessage, <<>>, <<>>, {})
    /\ UNCHANGED <<version, clock, files, appends>>
    /\ UNCHANGED rlVars
    /\ UNCHANGED fetch
    /\ UNCHANGED extVars

Tick(t) ==
    /\ t > clock
    /\ clock' = t
    /\ last' = Call("tick", None, NoMessage, <<>>, <<>>, {})
    /\ UNCHANGED <<version, conversation_cache, files, appends>>
    /\ UNCHANGED rlVars
    /\ UNCHANGED fetch
    /\ UNCHANGED extVars

\* The keys under which callers ask for a cached result.
CacheKeys == {"k1", "k2"}

\* manager.get_relevant_context(cache_key) of the current client
GetRelevantContext(ch, cache_key) ==
    /\ version = "current"
    /\ ch \in DOMAIN conversation_cache
    /\ LET got == get_relevant_context(conversation_cache[ch], cache_key, clock)
       IN  /\ conversation_cache' = [conversation_cache EXCEPT ![ch] = got.manager]
           /\ last' = Call("get_relevant_context", ch, NoMessage,
                           conversation_cache[ch].context, got.value, {})
    /\ UNCHANGED <<version, clock, files, appends>>
    /\ UNCHANGED rlVars
    /\ UNCHANGED fetch
    /\ UNCHANGED extVars

Init ==
    /\ version \in Versions
    /\ clock = 0
    /\ conversation_cache = EmptyDict
    /\ files \in [Channels -> InitFiles]
    /\ last = Call("start", None, NoMessage, <<>>, <<>>, {})
    /\ appends = 0
    /\ InitLimiter
    /\ InitFetch
    /\ InitExt

Next ==
    \/ \E ch \in Channels, m \in NewMessages \cup {NoMessage} : ManageContext(ch, m)
    \/ \E ch \in Channels, m \in NewMessages : AddMessage(ch, m)
    \/ \E failing \in SUBSET Channels : SaveContext(failing)
    \/ Restart
    \/ \E t \in Instants : Tick(t)

vars == <<version, clock, conversation_cache, files, last, appends,
          requests, rl_lock, rl_pc, rl_local, calls, fetch,
          chunking, notes_manager, handler, db, thought_chain_manager,
          managing, retry, post_processing>>

\* The context store, in either client version.
Spec == Init /\ [][Next]_vars

InitCacheOnly ==
    /\ version = "current"
    /\ clock = 0
    /\ conversation_cache = EmptyDict
    /\ files \in [Channels -> InitFiles]
    /\ last = Call("start", None, NoMessage, <<>>, <<>>, {})
    /\ appends = 0
    /\ InitLimiter
    /\ InitFetch
    /\ InitExt

NextCache ==
    \/ \E ch \in Channels, m \in NewMessages \cup {NoMessage} : ManageContext(ch, m)
    \/ \E ch \in Channels, m \in NewMessages : AddMessage(ch, m)
    \/ \E ch \in Channels, cache_key \in CacheKeys \cup {None} : GetRelevantContext(ch, cache_key)
    \/ \E t \in Instants : Tick(t)

\* The current ConversationManager with callers that pass a cache_key.
CacheSpec == InitCacheOnly /\ [][NextCache]_vars

\* The process-wide RateLimiter and its concurrent callers.
LimiterSpec == InitLimiterOnly /\ [][NextLimiter]_vars

NextLimiterLive ==
    \/ \E t \in Callers : Acquire(t)
    \/ \E t \in Callers : Resume(t)
    \/ \E t \in Callers : Wake(t)
    \/ \E d \in LimiterSteps : LimiterLiveTick(d)

\* The event loop runs every task that is ready and fires every timer that is
\* due: a waiter that has been handed the lock resumes, a sleeper whose time
\* has come wakes, and time passes.
LimiterFairness ==
    /\ \A t \in Callers : WF_vars(Resume(t))
    /\ \A t \in Callers : WF_vars(Wake(t))
    /\ WF_vars(\E d \in LimiterSteps : LimiterLiveTick(d))

\* The RateLimiter under the scheduling of the asyncio event loop.
LimiterLiveSpec == InitLimiterOnly /\ [][NextLimiterLive]_vars /\ LimiterFairness

\* One call of fetch_completion_with_hermes, in either client version.
FetchSpec == InitFetchOnly /\ [][NextFetch]_vars

\* One call of chunk_and_send_messages for each text.
InitChunkOnly ==
    /\ version = "current"
    /\ clock = 0
    /\ conversation_cache = EmptyDict
    /\ files = [ch \in Channels |-> NoFile]
    /\ last = Call("start", None, NoMessage, <<>>, <<>>, {})
    /\ appends = 0
    /\ InitLimiter
    /\ InitFetch
    /\ chunking \in [pc : {"idle"}, content : Texts, mention : Mentions, sent : {<<>>}]
    /\ InitNotes
    /\ InitHandler
    /\ InitDb
    /\ InitThoughtChains
    /\ InitAux

\* The UserNotesManager of either version, over files of an earlier run.
InitNotesOnly(initial_files) ==
    /\ version \in Versions
    /\ clock = 0
    /\ conversation_cache = EmptyDict
    /\ files = [ch \in Channels |-> NoFile]
    /\ last = Call("start", None, NoMessage, <<>>, <<>>, {})
    /\ appends = 0
    /\ InitLimiter
    /\ InitFetch
    /\ InitChunking
    /\ \E fs \in [NoteUsers -> initial_files] :
          notes_manager = [files |-> fs, cache |-> EmptyDict, initial |-> fs, log |-> <<>>]
    /\ InitHandler
    /\ InitDb
    /\ InitThoughtChains
    /\ InitAux

NextNotes ==
    \/ \E u \in NoteUsers, x \in NoteTexts : AddNote(u, x, "none")
    \/ \E u \in NoteUsers : GetUserNotes(u, "none")
    \/ NotesRestart

\* The note store with storage that works.
NotesSpec == InitNotesOnly({NoFile, OldNotesFile}) /\ [][NextNotes]_vars

NextNotesFaulty ==
    \/ \E u \in NoteUsers, x \in NoteTexts, fault \in NoteFaults : AddNote(u, x, fault)
    \/ \E u \in NoteUsers, fault \in NoteFaults \ {"write_error"} : GetUserNotes(u, fault)
    \/ NotesRestart

\* The note store with storage that may fail, and files that may be damaged.
NotesFaultSpec ==
    InitNotesOnly({NoFile, OldNotesFile, CorruptFile}) /\ [][NextNotesFaulty]_vars

NextChunk == ChunkAndSend

\* on_message alone; the cache may hold channels that manage_context filled.
InitHandlerOnly ==
    /\ version \in Versions
    /\ clock = 0
    /\ conversation_cache = EmptyDict
    /\ files = [ch \in Channels |-> NoFile]
    /\ last = Call("start", None, NoMessage, <<>>, <<>>, {})
    /\ appends = 0
    /\ InitLimiter
    /\ InitFetch
    /\ InitChunking
    /\ InitNotes
    /\ \E cache \in SUBSET HandlerChannels : handler = HandlerRecord(cache)
    /\ InitDb
    /\ InitThoughtChains
    /\ InitAux

NextHandler ==
    \/ \E ch \in HandlerChannels, message \in HandlerMessages : OnMessage(ch, message)
    \/ \E ch \in HandlerChannels, message \in HandlerMessages : LegacyOnMessage(ch, message)
    \/ CreateManager
    \/ \E outcome \in {"ok", "raises"} : EnterTyping(outcome)
    \/ \E outcome \in LlmOutcomes : ProcessLlmResponse(outcome)
    \/ \E fault \in PostFaults : ProcessAndSendResponse(fault)
    \/ \E outcome \in {"ok", "raises"} : HandlerExcept(outcome)
    \/ ProcessCommands
    \/ \E ch \in HandlerChannels, active \in BOOLEAN : HandleThoughtChain(ch, active)
    \/ \E outcome \in LlmOutcomes : FollowUpResponse(outcome)
    \/ EndThoughtChain

HandlerSpec == InitHandlerOnly /\ [][NextHandler]_vars

\* DatabaseManager alone, over empty tables.
InitDbOnly ==
    /\ version = "current"
    /\ clock = 0
    /\ conversation_cache = EmptyDict
    /\ files = [ch \in Channels |-> NoFile]
    /\ last = Call("start", None, NoMessage, <<>>, <<>>, {})
    /\ appends = 0
    /\ InitLimiter
    /\ InitFetch
    /\ InitExt

NextDb ==
    \E ch \in DbChannels, m \in DbMessages, fault \in DbFaults : DbAddMessage(ch, m, fault)

DbSpec == InitDbOnly /\ [][NextDb]_vars

\* Concurrent manage_context calls of either version, over two channels whose
\* files an earlier run may have written.
InitManagingOnly ==
    /\ version \in Versions
    /\ clock = 0
    /\ conversation_cache = EmptyDict
    /\ files \in [McChannels -> {NoFile, LongFile}]
    /\ last = Call("start", None, NoMessage, <<>>, <<>>, {})
    /\ appends = 0
    /\ InitLimiter
    /\ InitFetch
    /\ InitExt

NextManaging ==
    \/ \E t \in McTasks, ch \in McChannels :
          \E m \in {NoMessage, McMessage(t)} : McCall(t, ch, m)
    \/ \E t \in McTasks : McEnter(t)
    \/ \E t \in McTasks : McAppend(t)
    \/ \E t \in McTasks : McReturn(t)

ManagingSpec == InitManagingOnly /\ [][NextManaging]_vars

\* One call of process_and_send_response for each completion text.
InitPostOnly ==
    /\ version = "current"
    /\ clock = 0
    /\ conversation_cache = EmptyDict
    /\ files = [ch \in Channels |-> NoFile]
    /\ last = Call("start", None, NoMessage, <<>>, <<>>, {})
    /\ appends = 0
    /\ InitLimiter
    /\ InitFetch
    /\ InitChunking
    /\ InitNotes
    /\ InitHandler
    /\ InitDb
    /\ InitThoughtChains
    /\ InitManaging
    /\ InitRetry
    /\ \E before \in Befores, tags \in TagLists, after \in Afters :
          post_processing = [pc |-> "idle", tags |-> tags,
                             ai_response |-> CompletionText(before, tags, after),
                             generated |-> <<>>, content |-> <<>>]

InitRetryOnly ==
    /\ version = "current"
    /\ clock = 0
    /\ conversation_cache = EmptyDict
    /\ files = [ch \in Channels |-> NoFile]
    /\ last = Call("start", None, NoMessage, <<>>, <<>>, {})
    /\ appends = 0
    /\ InitLimiter
    /\ InitFetch
    /\ InitChunking
    /\ InitNotes
    /\ InitHandler
    /\ InitDb
    /\ InitThoughtChains
    /\ InitManaging
    /\ InitPostProcessing
    /\ \E maxr \in 1..max_retries, base_delay \in BaseDelays :
          retry = RetryRecord("call", maxr, base_delay)

NextRetry ==
    \/ \E outcome \in RetryOutcomes : RetryCall(outcome)
    \/ RetrySleep

\* One call of retry_with_exponential_backoff.
RetrySpec == InitRetryOnly /\ [][NextRetry]_vars

NextPost == ProcessText

PostSpec == InitPostOnly /\ [][NextPost]_vars

NextChain ==
    \/ \E ch \in ChainChannels, m \in ChainMessages : MaybeStartChain(ch, m)
    \/ ChainTick

\* The ThoughtChainManager alone, from a fresh manager.
ChainSpec == InitDbOnly /\ [][NextChain]_vars

\* The message that starts a chain.
Trigger == <<"W", "h", "y">>

NextChainCount ==
    \/ \E ch \in ChainChannels : MaybeStartChain(ch, Trigger)
    \/ \E ch \in ChainChannels : UpdateChain(ch)
    \/ \E ch \in ChainChannels : GetFollowUpPrompt(ch)
    \/ ChainTick

\* The ThoughtChainManager with its chains being continued.
ChainCountSpec == InitDbOnly /\ [][NextChainCount]_vars

ChunkSpec == InitChunkOnly /\ [][NextChunk]_vars

----------------------------------------------------------------------------
(* Properties of the context store *)

\* The stored messages of the channel the most recent call was about.
StoredOfLast == conversation_cache[last.channel].context

AgeOf(msg) == clock - msg.timestamp

AppendedNow == last.op \in {"add_message", "manage_context"} /\ last.message # NoMessage

Queried == last.op = "manage_context"

IsPrefix(s, t) == Len(s) <= Len(t) /\ SubSeq(t, 1, Len(s)) = s

RECURSIVE Younger(_, _)
\* The messages of `context` whose age is below `limit`, in order.
Younger(context, limit) ==
    IF context = <<>> THEN <<>>
    ELSE IF AgeOf(Head(context)) < limit
         THEN <<Head(context)>> \o Younger(Tail(context), limit)
         ELSE Younger(Tail(context), limit)

\* C1: in both client versions, after every sequence of add_message calls and
\* after the initial load of a persisted file, no ConversationManager holds
\* more than MAX_CONTEXT_SIZE messages.
C1_ContextBounded ==
    \A ch \in DOMAIN conversation_cache :
        Len(conversation_cache[ch].context) <= MAX_CONTEXT_SIZE

\* A message has just been appended to a context that was full.
C1_Witness ==
    /\ AppendedNow
    /\ Len(last.before) = MAX_CONTEXT_SIZE
    /\ Len(StoredOfLast) = MAX_CONTEXT_SIZE

\* C2: add_message on a full context evicts exactly the oldest message: the
\* context afterwards is the previous one without its first element, in the
\* same order, followed by the new message; below capacity nothing is
\* evicted and the new message is last.
C2_EvictsOldest ==
    AppendedNow =>
        LET now_stored == StoredOfLast
            newest == now_stored[Len(now_stored)]
        IN  /\ now_stored # <<>>
            /\ newest.content = last.message.content
            /\ newest.timestamp = clock
            /\ version = "current" => newest.role = last.message.role
            /\ IF Len(last.before) = MAX_CONTEXT_SIZE
               THEN now_stored = Append(Tail(last.before), newest)
               ELSE now_stored = Append(last.before, newest)

\* An append at capacity whose evicted message differs from the one kept first.
C2_Witness ==
    /\ last.op = "add_message"
    /\ Len(last.before) = MAX_CONTEXT_SIZE
    /\ last.before[1] # StoredOfLast[1]
    /\ StoredOfLast[Len(StoredOfLast)].content # last.before[Len(last.before)].content

C5_ReadOnlyStep ==
    /\ last'.op = "manage_context" /\ last'.message = NoMessage
          => /\ conversation_cache'[last'.channel].context = last'.before
             /\ last'.channel \in DOMAIN conversation_cache
                  => conversation_cache'[last'.channel].context
                        = conversation_cache[last'.channel].context
             /\ files' = files
    /\ last'.op = "save_context"
          => \A ch \in DOMAIN conversation_cache \ last'.failing :
                /\ Len(files'[ch].data) = Len(conversation_cache[ch].context)
                /\ \A i \in 1..Len(conversation_cache[ch].context) :
                      /\ files'[ch].data[i].content = conversation_cache[ch].context[i].content
                      /\ files'[ch].data[i].timestamp = conversation_cache[ch].context[i].timestamp
    /\ \A ch \in DOMAIN conversation_cache \cap DOMAIN conversation_cache' :
          LET old == conversation_cache[ch].context
              new == conversation_cache'[ch].context
          IN  new # old =>
                /\ last'.op \in {"add_message", "manage_context"}
                /\ last'.message # NoMessage
                /\ IF Len(old) = MAX_CONTEXT_SIZE
                   THEN IsPrefix(Tail(old), new)
                   ELSE IsPrefix(old, new)

C5_ReadOnly == [][C5_ReadOnlyStep]_vars

\* A query has just omitted an expired message that is still stored.
C5_Witness ==
    /\ Queried
    /\ last.message = NoMessage
    /\ Len(last.value) < Len(StoredOfLast)
    /\ \E i \in 1..Len(StoredOfLast) : AgeOf(StoredOfLast[i]) > DecaySeconds

----------------------------------------------------------------------------
(* Properties of the rate limiter *)

\* The calls that start a window: their filter left self.requests empty.
Fresh(i) == calls[i].pending = 0

\* C6: when acquire() is called N + 1 times within 60 seconds, starting with
\* an empty window, the first N calls return without sleeping and the
\* (N+1)-th does not return before 60 seconds have passed since the instant
\* recorded for the first.
C6_ExtraCallWaits ==
    \A i \in 1..Len(calls) :
        Fresh(i) =>
            /\ \A j \in i..(i + requests_per_minute - 1) :
                  j <= Len(calls) =>
                      /\ ~calls[j].slept
                      /\ calls[j].returned = calls[j].now
            /\ LET k == i + requests_per_minute
               IN  (k <= Len(calls) /\ calls[k].now < calls[i].recorded + WindowSeconds)
                      => /\ calls[k].slept
                         /\ calls[k].returned >= calls[i].recorded + WindowSeconds

\* N calls returned at once and the next one, made in the same window, has
\* slept and returned.
C6_Witness ==
    /\ Len(calls) > requests_per_minute
    /\ Fresh(1)
    /\ calls[requests_per_minute + 1].now < calls[1].recorded + WindowSeconds
    /\ calls[requests_per_minute + 1].now > calls[1].recorded
    /\ calls[requests_per_minute + 1].slept
    /\ calls[requests_per_minute + 1].returned = calls[1].recorded + WindowSeconds

\* The calls that returned before call j and within the 60 seconds up to its return.
ReturnedBefore(j) ==
    {k \in 1..(j - 1) : calls[k].returned > calls[j].returned - WindowSeconds}

\* C7: when a call of acquire() returns, fewer than N other calls have
\* returned during the trailing 60 seconds, so that no 60-second window
\* holds more than N returns.
C7_WindowNeverOverfull ==
    \A j \in 1..Len(calls) : Cardinality(ReturnedBefore(j)) < requests_per_minute

\* C8: the instant acquire() appends to self.requests is the instant at which
\* the call stops waiting and returns, also when it had to sleep.
C8_RecordsReturnInstant ==
    \A j \in 1..Len(calls) : calls[j].recorded = calls[j].returned

----------------------------------------------------------------------------
(* Properties of fetch_completion_with_hermes *)

Attempts == Len(fetch.log)

FetchDone == fetch.pc = "done"

\* The outcomes in which a response with status 200 arrived.
Status200 == {"ok", "bad_json", "no_choices"}

\* The text the client makes of the content of a 200 response.
Cleaned(content) == IF version = "legacy" THEN strip(content) ELSE current_clean(content)

\* C9 as the spec states it: in both clients the request is re-issued after a
\* transport error and after a status other than 200, at most 3 attempts are
\* made, and none follows a 200 response.
C9_RetriesErrorsAndStatus ==
    /\ Attempts <= max_retries
    /\ \A i \in 1..(Attempts - 1) : fetch.log[i].kind \notin Status200
    /\ (FetchDone /\ Attempts >= 1 /\ Attempts < max_retries)
          => fetch.log[Attempts].kind \in Status200

\* C9 as the code has it: both clients make at most 3 attempts and none after
\* a 200 response they could use.  The legacy client re-issues the request
\* after a transport error, after a status other than 200 and after a 200
\* response whose body it cannot use; the current client re-issues it only
\* after a transport error, and any response, whatever its status, ends the
\* call.
C9_Retries ==
    /\ Attempts <= max_retries
    /\ \A i \in 1..(Attempts - 1) : fetch.log[i].kind # "ok"
    /\ version = "legacy" =>
          ((FetchDone /\ Attempts >= 1 /\ Attempts < max_retries)
              => fetch.log[Attempts].kind = "ok")
    /\ version = "current" =>
          /\ \A i \in 1..(Attempts - 1) : fetch.log[i].kind \in TransportErrors
          /\ (FetchDone /\ Attempts >= 1 /\ Attempts < max_retries)
                => fetch.log[Attempts].kind \notin TransportErrors

\* The current client has retried a timeout and then given up on a status
\* other than 200, with an attempt to spare.
C9_Witness ==
    /\ version = "current"
    /\ FetchDone
    /\ Attempts = 2
    /\ fetch.log[1].kind = "timeout"
    /\ fetch.log[2].kind = "non200"
    /\ fetch.slept = <<1>>
    /\ fetch.result = ReturnNone

\* C10 as the spec states it: once a request was made the call ends without
\* an exception, either with the text of a 200 response or with None once
\* the attempts are exhausted.
C10_NoneOnlyWhenExhausted ==
    (FetchDone /\ Attempts >= 1) =>
        \/ /\ fetch.result.kind = "text"
           /\ fetch.log[Attempts].kind = "ok"
           /\ fetch.result.text = Cleaned(fetch.log[Attempts].content)
        \/ /\ fetch.result.kind = "none"
           /\ Attempts = max_retries

\* C10 as the code has it: the call never raises and returns either the whole
\* cleaned text of the 200 response of its last attempt or None.  None comes
\* after the third failed attempt; in the current client also straight after
\* a status other than 200 or a 200 response it cannot use; and in both
\* clients before any attempt when the user's notes cannot be read out.
C10_TextOrNone ==
    FetchDone =>
        \/ /\ fetch.result.kind = "text"
           /\ Attempts >= 1
           /\ fetch.log[Attempts].kind = "ok"
           /\ fetch.result.text = Cleaned(fetch.log[Attempts].content)
        \/ /\ fetch.result.kind = "none"
           /\ \/ Attempts = max_retries /\ fetch.log[Attempts].kind # "ok"
              \/ Attempts = 0 /\ notes_raise(fetch.user_notes)
              \/ /\ version = "current"
                 /\ Attempts >= 1
                 /\ fetch.log[Attempts].kind \in {"non200", "bad_json", "no_choices"}

\* The legacy client's third attempt has raised, after an error and a status
\* other than 200, and the caller has got None.
C10_Witness ==
    /\ version = "legacy"
    /\ FetchDone
    /\ Attempts = max_retries
    /\ fetch.log[1].kind = "client_error"
    /\ fetch.log[2].kind = "non200"
    /\ fetch.log[max_retries].kind = "timeout"
    /\ fetch.result = ReturnNone

\* The request's message list has been built.
Built == fetch.pc # "idle" /\ ~notes_raise(fetch.user_notes)

----------------------------------------------------------------------------
(* Properties of chunk_and_send_messages *)

\* The messages sent, the first without the mention and the space put before it.
SentChunks ==
    IF chunking.sent = <<>> THEN <<>>
    ELSE <<SubSeq(chunking.sent[1], Len(chunking.mention) + 2, Len(chunking.sent[1]))>>
             \o Tail(chunking.sent)

\* C12: every message chunk_and_send_messages passes to channel.send, the
\* mention before the first chunk included, is no longer than Discord's
\* limit, also for a text with a long run that holds no boundary.
C12_MessagesFitDiscord ==
    chunking.pc = "done" =>
        \A i \in 1..Len(chunking.sent) : Len(chunking.sent[i]) <= DiscordLimit

\* C13: the chunks sent, in order and without the mention, concatenate to the
\* cleaned text: no character is dropped, added or moved.
C13_ChunksReconstructText ==
    (chunking.pc = "done" /\ \A i \in 1..Len(chunking.sent) : Len(chunking.sent[i]) <= DiscordLimit)
        => Concat(SentChunks) = cleaned_content(chunking.content)

----------------------------------------------------------------------------
(* Properties of the UserNotesManager *)

NoteLog == notes_manager.log

\* The contents of the notes of a list, in order.
ContentsOf(list) == [i \in 1..Len(list) |-> list[i].content]

RECURSIVE AddedFor(_, _)
\* The texts the first n calls of the log added for user u, in order.
AddedFor(u, n) ==
    IF n = 0 THEN <<>>
    ELSE IF NoteLog[n].op = "add_note" /\ NoteLog[n].user_id = u
         THEN Append(AddedFor(u, n - 1), NoteLog[n].note)
         ELSE AddedFor(u, n - 1)

\* C14: add_note(u, x) followed by get_user_notes(u) returns a list whose
\* last element has content x, whatever calls came before, in both versions
\* of the manager, the current one answering from its cache included.
C14_NoteRoundTrip ==
    \A i \in 1..(Len(NoteLog) - 1) :
        (/\ NoteLog[i].op = "add_note"
         /\ NoteLog[i + 1].op = "get_user_notes"
         /\ NoteLog[i + 1].user_id = NoteLog[i].user_id)
            => /\ NoteLog[i + 1].value # <<>>
               /\ NoteLog[i + 1].value[Len(NoteLog[i + 1].value)].content = NoteLog[i].note

\* The current manager has answered from its cache, then added a note to a
\* list that held one already, and returned the new note last.
C14_Witness ==
    /\ version = "current"
    /\ Len(NoteLog) >= 3
    /\ \E i \in 2..(Len(NoteLog) - 1) :
          /\ NoteLog[i - 1].op = "get_user_notes"
          /\ NoteLog[i - 1].user_id = NoteLog[i].user_id
          /\ NoteLog[i - 1].value # <<>>
          /\ NoteLog[i].op = "add_note"
          /\ NoteLog[i + 1].op = "get_user_notes"
          /\ NoteLog[i + 1].user_id = NoteLog[i].user_id
          /\ NoteLog[i].user_id \in DOMAIN notes_manager.cache
          /\ Len(NoteLog[i + 1].value) >= 2

\* C15: the note log of a user is append-only: get_user_notes(u) returns the
\* notes of u's file of the earlier run followed by exactly the notes added
\* for u since, in the order they were added; a note added for another user
\* does not show and changes nothing, and nothing is ever evicted.
C15_AppendOnly ==
    \A i \in 1..Len(NoteLog) :
        NoteLog[i].op = "get_user_notes" =>
            ContentsOf(NoteLog[i].value) =
                ContentsOf(notes_manager.initial[NoteLog[i].user_id].data)
                    \o AddedFor(NoteLog[i].user_id, i - 1)

\* A user's notes were read after two notes were added for that user, with
\* a note for the other user added in between.
C15_Witness ==
    /\ Len(NoteLog) = 4
    /\ NoteLog[1].op = "add_note"
    /\ NoteLog[2].op = "add_note"
    /\ NoteLog[3].op = "add_note"
    /\ NoteLog[4].op = "get_user_notes"
    /\ NoteLog[1].user_id = NoteLog[4].user_id
    /\ NoteLog[2].user_id # NoteLog[4].user_id
    /\ NoteLog[3].user_id = NoteLog[4].user_id
    /\ NoteLog[1].note # NoteLog[3].note
    /\ notes_manager.initial[NoteLog[4].user_id].exists
    /\ Len(NoteLog[4].value) = 3

----------------------------------------------------------------------------
(* Properties of save_context_periodically *)

\* The file of channel ch holds exactly the messages of `context`, in order.
Persisted(file, context) ==
    /\ file.exists
    /\ file.valid
    /\ Len(file.data) = Len(context)
    /\ \A i \in 1..Len(context) :
          /\ file.data[i].content = context[i].content
          /\ file.data[i].timestamp = context[i].timestamp

\* C16 as the spec states it: every cycle writes the full message list of
\* every cached channel, so that after a cycle each cached channel's file
\* holds every message its context held when the cycle ran.
C16_EveryCycleWritesAllStep ==
    last'.op = "save_context" =>
        \A ch \in DOMAIN conversation_cache :
            Persisted(files'[ch], conversation_cache[ch].context)

C16_CycleWritesWhatItCanStep ==
    /\ last'.op = "save_context" =>
          /\ \A ch \in DOMAIN conversation_cache \ last'.failing :
                Persisted(files'[ch], conversation_cache[ch].context)
          /\ \A ch \in Channels :
                (ch \in last'.failing \/ ch \notin DOMAIN conversation_cache)
                    => files'[ch] = files[ch]
          /\ conversation_cache' = conversation_cache
    /\ last'.op # "save_context" => files' = files

----------------------------------------------------------------------------
(* Properties of the context load *)

\* Loading the file fails: it cannot be read or parsed, or one of the entries
\* the load would take lacks a field.
LoadFails(file) ==
    /\ file.exists
    /\ \/ ~file.valid
       \/ \E i \in 1..Len(LastN(file.data, MAX_CONTEXT_SIZE)) :
             entry_raises(LastN(file.data, MAX_CONTEXT_SIZE)[i])

\* C17: when the load of a channel's persisted context fails (unreadable
\* file, invalid JSON, an entry without a required field), manage_context
\* does not raise and the channel starts with an empty context: no entry of
\* the failed file is kept.
C17_FailedLoadStartsEmptyStep ==
    (/\ last'.op = "manage_context"
     /\ last'.channel \notin DOMAIN conversation_cache
     /\ LoadFails(files[last'.channel]))
        => /\ last'.channel \in DOMAIN conversation_cache'
           /\ last'.before = <<>>

C17_FailedLoadStartsEmpty == [][C17_FailedLoadStartsEmptyStep]_vars

----------------------------------------------------------------------------
(* Properties of on_message *)

Fallbacks == {ThinkingFallback, ErrorFallback, HandlerFallback}

SentFallback == \E i \in 1..Len(handler.sent) : handler.sent[i] \in Fallbacks

\* C18: whenever handling a message the bot decided to answer met a failure
\* (manager creation, completion None or raising, post-processing raising), the
\* handler returns and a fallback message has been sent to the channel.
C18_FailureSendsFallback ==
    handler.pc = "done" /\ handler.path = "on_message" /\ handler.failure # {} => SentFallback

----------------------------------------------------------------------------
(* Properties of local storage failures *)

DbFailed(call) == call.fault # "none"

\* C19: a local storage failure is logged and never raised to the caller; for
\* DatabaseManager.add_message, every call that met a database failure logged
\* it and did not raise.
C19_StorageFailureNotRaised ==
    \A i \in 1..Len(db.calls) :
        DbFailed(db.calls[i]) => db.calls[i].logged /\ ~db.calls[i].raised

----------------------------------------------------------------------------
(* Properties of the ThoughtChainManager *)

ChainCalls == thought_chain_manager.calls

\* Call i started a chain in the channel of call j, before j.
StartedBefore(i, j) ==
    /\ i < j
    /\ ChainCalls[i].value
    /\ ChainCalls[i].channel_id = ChainCalls[j].channel_id

\* C20: two calls of maybe_start_chain that return True for the same channel
\* are at least 60 seconds apart, and what a call returns depends only on its
\* message and on the earlier starts in its own channel: a trigger message in
\* a channel with no start in the last 60 seconds starts a chain, whatever
\* happened in the other channels.
C20_CooldownPerChannel ==
    \A j \in 1..Len(ChainCalls) :
        ChainCalls[j].value =
            (/\ should_continue_chain(ChainCalls[j].message)
             /\ \A i \in 1..Len(ChainCalls) :
                   StartedBefore(i, j) => ChainCalls[j].time - ChainCalls[i].time >= ChainCooldown)

\* A chain starts in one channel, then in the other one within the cooldown of
\* the first, and again in the first channel once its cooldown is over, after
\* a refused start.
C20_Witness ==
    \E i, j, k, l \in 1..Len(ChainCalls) :
        /\ i < j /\ j < k /\ k < l
        /\ ChainCalls[i].value /\ ChainCalls[j].value /\ ~ChainCalls[k].value /\ ChainCalls[l].value
        /\ ChainCalls[i].channel_id = ChainCalls[l].channel_id
        /\ ChainCalls[i].channel_id = ChainCalls[k].channel_id
        /\ should_continue_chain(ChainCalls[k].message)
        /\ ChainCalls[j].channel_id # ChainCalls[i].channel_id
        /\ ChainCalls[j].time - ChainCalls[i].time < ChainCooldown
        /\ ChainCalls[l].time - ChainCalls[i].time = ChainCooldown

----------------------------------------------------------------------------
(* Properties of the order of steps in on_message *)

HandlerTrace == handler.trace

\* The place of a step in the data flow.
Rank(op) ==
    CASE op = "add_message_user" -> 1
      [] op = "completion" -> 2
      [] op = "send" -> 3
      [] op = "add_message_assistant" -> 4
      [] OTHER -> 0

OccursBefore(op, j) == \E i \in 1..(j - 1) : HandlerTrace[i].op = op

\* C21: while on_message handles a message, the user message is appended to
\* the context first, then the completion is requested, then the reply is
\* sent, and only then the assistant reply is appended: no step of the flow
\* comes before an earlier one, the completion follows the append of the user
\* message, and a reply is sent or stored only after the completion.
C21_StepsInOrder ==
    handler.path = "on_message" =>
    /\ \A i, j \in 1..Len(HandlerTrace) :
          /\ Rank(HandlerTrace[i].op) > 0
          /\ Rank(HandlerTrace[i].op) < Rank(HandlerTrace[j].op)
          => i < j
    /\ \A j \in 1..Len(HandlerTrace) :
          /\ HandlerTrace[j].op = "completion" => OccursBefore("add_message_user", j)
          /\ HandlerTrace[j].op \in {"send", "add_message_assistant"}
                => OccursBefore("completion", j)
    /\ \A i \in 1..Len(HandlerTrace) :
          HandlerTrace[i].op = "send" /\ handler.pc \in {"commands", "done"}
             => \E j \in (i + 1)..Len(HandlerTrace) :
                   HandlerTrace[j] = Event("add_message_assistant", HandlerTrace[i].content)

\* A message was answered: all four steps happened and the handler returned.
C21_Witness ==
    /\ handler.pc = "done"
    /\ handler.path = "on_message"
    /\ handler.trace = <<Event("add_message_user", "prompt"), Event("completion", "prompt"),
                         Event("send", Response), Event("add_message_assistant", Response)>>

----------------------------------------------------------------------------
(* Properties of concurrent manage_context calls *)

\* The context after a step is the context before it, or that context with
\* one message appended (the oldest one leaving a full deque).
Continues(old, new) ==
    \/ new = old
    \/ new # <<>> /\ new = deque_append(old, new[Len(new)])

McStateOK ==
    /\ \A ch \in McChannels : managing.created[ch] <= 1
    /\ \A ch \in DOMAIN conversation_cache :
          ContentsOfContext(conversation_cache[ch].context)
             = LastN(managing.passed[ch], MAX_CONTEXT_SIZE)
    /\ \A t \in McTasks :
          /\ managing.pc[t] \in {"read", "done"}
          /\ managing.message[t] # NoMessage
          => \E i \in 1..Len(managing.passed[managing.channel[t]]) :
                managing.passed[managing.channel[t]][i] = managing.message[t].content

McStepOK ==
    \A ch \in DOMAIN conversation_cache :
        /\ ch \in DOMAIN conversation_cache'
        /\ Continues(conversation_cache[ch].context, conversation_cache'[ch].context)

\* C22: under every interleaving of manage_context calls, at most one
\* ConversationManager is created per channel, the context of a channel holds
\* the newest MAX_CONTEXT_SIZE of all messages loaded and passed (none is
\* lost), and an entry of conversation_cache is never removed or replaced: a
\* step only appends to its context.
C22_OneManagerPerChannel == []McStateOK /\ [][McStepOK]_vars

\* Three calls for one channel have returned, two of them with a message,
\* and the channel's file was loaded once.
C22_Witness ==
    \E ch \in McChannels :
        /\ \A t \in McTasks : managing.pc[t] = "done" /\ managing.channel[t] = ch
        /\ Cardinality({t \in McTasks : managing.message[t] # NoMessage}) = 2
        /\ files[ch] = LongFile
        /\ managing.created[ch] = 1

----------------------------------------------------------------------------
(* Properties of the control markers *)

TagName == SubSeq(OpenTag, 2, Len(OpenTag) - 1)

\* C23: once a completion text has been processed, generate_image was called
\* exactly once for each of its tags, with the tag's prompt, and neither the
\* tag markup nor a prompt is left in the text handed on for sending.
C23_TagsRecognisedAndStripped ==
    post_processing.pc = "done" /\ post_processing.tags # <<>>
    => /\ post_processing.generated = post_processing.tags
       /\ ~contains(post_processing.content, TagName)
       /\ \A i \in 1..Len(post_processing.tags) :
             ~contains(post_processing.content, post_processing.tags[i])

----------------------------------------------------------------------------
(* Properties of stored timestamps *)

\* The step is the first manage_context of the process for channel ch, and
\* loads the channel's file.
Reloads(ch) ==
    /\ ch \notin DOMAIN conversation_cache
    /\ ch \in DOMAIN conversation_cache'
    /\ last'.op = "manage_context"

C24_TimestampSurvivesReloadStep ==
    \A ch \in Channels :
        Reloads(ch) =>
            LET loaded == last'.before
                entries == LastN(files[ch].data, MAX_CONTEXT_SIZE)
            IN  \A i \in 1..Len(loaded) : loaded[i].timestamp = entries[i].timestamp

\* C24: a stored message keeps the timestamp of its first append, also across
\* a save and a reload: the messages manage_context loads from a channel's
\* file carry the timestamps the file holds for them.
C24_TimestampSurvivesReload == [][C24_TimestampSurvivesReloadStep]_vars

----------------------------------------------------------------------------
(* Properties of the assistant replies in the context *)

\* How many times the reply was appended to the context as an assistant message.
TimesStored(reply) ==
    Cardinality({i \in 1..Len(HandlerTrace) :
                    HandlerTrace[i] = Event("add_message_assistant", reply)})

\* C25: once on_message or handle_thought_chain is through with a message,
\* every assistant reply it sent has been appended to the channel's context
\* exactly once.
C25_ReplyStoredOnce ==
    handler.pc = "done" =>
        \A i \in 1..Len(HandlerTrace) :
            HandlerTrace[i].op = "send" => TimesStored(HandlerTrace[i].content) = 1

----------------------------------------------------------------------------
(* Properties of the messages the bot ignores *)

FromTheBotItself == handler.message.author = "self"

FromAnotherBot == handler.message.author = "bot"

\* C26: for a message written by the bot itself (either bot) or by another
\* bot (current bot), on_message sends nothing, requests no completion and
\* appends nothing to any context.
C26_NoReactionToBots ==
    FromTheBotItself \/ (FromAnotherBot /\ version = "current")
        => handler.pc = "done" /\ handler.sent = <<>> /\ handler.trace = <<>>

\* The current bot has ignored a message of another bot that mentions it, and
\* before that has answered a human.
C26_Witness ==
    /\ version = "current"
    /\ handler.pc = "done"
    /\ FromAnotherBot
    /\ handler.message.mentioned
    /\ handler.sent = <<>>
    /\ Len(handler.history) = 2
    /\ handler.history[1].sent # <<>>

----------------------------------------------------------------------------
(* The result cache of get_relevant_context *)

\* What an uncached get_relevant_context() returns at this instant.
Uncached(ch) == relevant_messages(conversation_cache[ch].context, clock)

\* C27: a get_relevant_context(cache_key) that has just returned has returned
\* the messages and relevances an uncached call returns at the same instant.
C27_CachedEqualsUncached ==
    last.op = "get_relevant_context" => last.value = Uncached(last.channel)

\* Every add_message leaves the manager with no cached result.
C27_AddMessageInvalidates ==
    last.op = "add_message" => conversation_cache[last.channel].cache = EmptyDict

----------------------------------------------------------------------------
(* retry_with_exponential_backoff: calls, sleeps and result *)

Failed(k) == retry.log[k].kind = "raises"

\* The sleeps so far are base_delay * 2^k after failed attempt k.
SleepsAreExponential ==
    \A k \in 1..Len(retry.slept) : retry.slept[k] = retry.base_delay * Pow2(k - 1)

\* C28: the calls stop at the first success, whose value is returned; when
\* every call fails there are exactly max_retries calls, a sleep of
\* base_delay * 2^k after failed attempt k but none after the last, and the
\* exception of the last attempt is raised.
C28_RetryContract ==
    /\ Len(retry.log) <= retry.max_retries
    /\ \A k \in 1..(Len(retry.log) - 1) : Failed(k)
    /\ SleepsAreExponential
    /\ (retry.log # <<>> /\ ~Failed(Len(retry.log)))
          => /\ retry.pc = "done"
             /\ retry.result = retry.log[Len(retry.log)]
             /\ Len(retry.slept) = Len(retry.log) - 1
    /\ retry.pc = "done"
          => /\ Len(retry.slept) = Len(retry.log) - 1
             /\ retry.result = retry.log[Len(retry.log)]
             /\ retry.result.kind = "raises" => Len(retry.log) = retry.max_retries
    /\ retry.pc = "sleep" => Len(retry.log) < retry.max_retries /\ Len(retry.slept) = Len(retry.log) - 1
    /\ retry.pc = "call" => Len(retry.slept) = Len(retry.log)

\* Three calls have failed, the last with another exception than the first:
\* two sleeps, then the last exception is raised.
C28_Witness ==
    /\ retry.pc = "done"
    /\ retry.max_retries = max_retries
    /\ retry.base_delay = 2
    /\ Len(retry.log) = max_retries
    /\ retry.result = [kind |-> "raises", value |-> "ClientError"]
    /\ retry.log[1].value = "TimeoutError"
    /\ retry.slept = <<2, 4>>

----------------------------------------------------------------------------
(* ThoughtChainManager: the length of a chain *)

ActiveChains == thought_chain_manager.active_chains

\* The state of the manager itself.
ChainState(mgr) == <<mgr.active_chains, mgr.last_chain_time>>

\* Every active chain has been continued at most three times.
ChainCountBounded ==
    \A ch \in DOMAIN ActiveChains : ActiveChains[ch].chain_count \in 0..(MaxChainCount - 1)

\* An update_chain or get_follow_up_prompt on a channel without an active
\* chain changes nothing, and the prompt is None; the update_chain that
\* brings a chain to its fourth response removes it, an earlier one counts.
ChainStepOK ==
    LET op == thought_chain_manager'.last_op
        ch == op.channel_id
    IN  /\ (op.op \in {"update_chain", "get_follow_up_prompt"} /\ ch \notin DOMAIN ActiveChains)
              => /\ ChainState(thought_chain_manager') = ChainState(thought_chain_manager)
                 /\ op.value = None
        /\ (op.op = "get_follow_up_prompt" /\ ch \in DOMAIN ActiveChains)
              => /\ ChainState(thought_chain_manager') = ChainState(thought_chain_manager)
                 /\ op.value # None
        /\ (op.op = "update_chain" /\ ch \in DOMAIN ActiveChains)
              => IF ActiveChains[ch].chain_count = MaxChainCount - 1
                 THEN ch \notin DOMAIN thought_chain_manager'.active_chains
                 ELSE /\ ch \in DOMAIN thought_chain_manager'.active_chains
                      /\ thought_chain_manager'.active_chains[ch].chain_count =
                            ActiveChains[ch].chain_count + 1

----------------------------------------------------------------------------
(* RateLimiter.acquire: every call returns *)

InAcquire(t) == rl_pc[t] # "idle"

\* C30: every acquire() call eventually returns, whether its caller sleeps
\* holding the lock or is queued on the lock behind a sleeper.
C30_AcquireReturns == \A t \in Callers : InAcquire(t) ~> ~InAcquire(t)

\* The calls that fill the window have returned, and now a caller sleeps
\* holding the lock with the other two queued behind it.
C30_Witness ==
    /\ Len(calls) >= requests_per_minute
    /\ \E t \in Callers :
          /\ rl_pc[t] = "sleeping"
          /\ rl_lock.holder = t
          /\ Len(rl_lock.waiters) = Cardinality(Callers) - 1

====
